---------------------------- MODULE Spec2Model ----------------------------
(***************************************************************************)
(* Crisis detection and escalation engine of the Arabic mental-health      *)
(* chatbot: backend/guardrailes/crisis_detector.py, class                  *)
(* CrisisDetectionSystem.                                                  *)
(*                                                                         *)
(* Representation.                                                         *)
(*  - A Python str is a sequence of Unicode code points (ord of each       *)
(*    character); the Arabic original of every literal is in the comment   *)
(*    beside it.  Dict keys that are ASCII identifiers, and session ids,   *)
(*    are TLA+ strings.                                                    *)
(*  - A score is an exact decimal in thousandths: 0.3 is 300, 1.2 is 1200. *)
(*    Every weight of the program is a multiple of 0.005, so sums and      *)
(*    products are exact here; the program computes in binary doubles.     *)
(*  - A dict is a function whose DOMAIN is the key set; a list is a        *)
(*    sequence.  list(set) is a sequence without repetition in an          *)
(*    arbitrary but fixed order.                                           *)
(***************************************************************************)
EXTENDS Integers, Sequences, FiniteSets, TLC

(***************************************************************************)
(* Bounds of the model.                                                    *)
(***************************************************************************)
\* Calls of assess_crisis_level in a behaviour of Spec.
MaxTurns == 3
\* Calls of assess_crisis_level in a behaviour of SpecSession.
MaxSessionTurns == 4
\* Calls of assess_crisis_level in a behaviour of SpecLong.
MaxLongTurns == 11
\* total_score inputs of SpecLevel: 0, 0.005, ..., MaxScoreUnits * 0.005.
MaxScoreUnits == 640
\* Longest crisis_types list given to _get_relevant_resources in SpecResources.
MaxTypesLen == 3
\* Calls of assess_crisis_level in a behaviour of SpecRepeat.
MaxRepeatTurns == 4
\* Calls of assess_crisis_level running at the same time in SpecConcurrent.
NumThreads == 2
\* Most matches of one crisis type in one channel's result in SpecFusion.
MaxMatches == 2
\* Most words of a text given to _check_crisis_keywords in SpecLexicon.
MaxWords == 3

\* The turns of total score 1.5 that open a session of SpecCalm, at most.
MaxPriorTurns == 2

(***************************************************************************)
(* Enumerations (crisis_detector.py 9-24).                                 *)
(***************************************************************************)
CrisisType ==
  [SUICIDE |-> "suicide", SELF_HARM |-> "self_harm", VIOLENCE |-> "violence",
   SEVERE_DEPRESSION |-> "severe_depression", PSYCHOSIS |-> "psychosis",
   SUBSTANCE_ABUSE |-> "substance_abuse", EATING_DISORDER |-> "eating_disorder"]

CrisisLevel ==
  [LOW |-> "low", MEDIUM |-> "medium", HIGH |-> "high", CRITICAL |-> "critical"]

CrisisTypeValues == {CrisisType[m] : m \in DOMAIN CrisisType}

CrisisLevelValues == {CrisisLevel[m] : m \in DOMAIN CrisisLevel}

\* Python's None, as the value of an absent session_id.
None == "<None>"

(***************************************************************************)
(* Generic helpers for Python values.                                      *)
(***************************************************************************)
Range(l) == {l[i] : i \in DOMAIN l}

\* x in l, for a list l.
InList(x, l) == \E i \in DOMAIN l : l[i] = x

\* d.get(key, default)
Get(d, key, default) == IF key \in DOMAIN d THEN d[key] ELSE default

\* d.update(e): the keys of e are added, a key of both takes e's value.
Update(d, e) == [k \in (DOMAIN d) \cup (DOMAIN e) |-> IF k \in DOMAIN e THEN e[k] ELSE d[k]]

\* The empty dict.
EmptyDict == [k \in {} |-> 0]

RECURSIVE ListOfSet(_)
\* list(s) for a set s.
ListOfSet(s) ==
  IF s = {} THEN <<>>
  ELSE LET x == CHOOSE y \in s : TRUE IN <<x>> \o ListOfSet(s \ {x})

RECURSIVE SumValues(_)
\* sum(d.values())
SumValues(d) ==
  IF DOMAIN d = {} THEN 0
  ELSE LET k == CHOOSE y \in DOMAIN d : TRUE
       IN d[k] + SumValues([j \in (DOMAIN d) \ {k} |-> d[j]])

(***************************************************************************)
(* Strings.                                                                *)
(***************************************************************************)
\* The line feed, the only character '.' of a regex does not match.
NewLine == 10

\* str.lower() of one character: the ASCII capitals map to their small
\* letters; Arabic letters, digits, punctuation and white space are caseless.
lower_char(c) == IF c >= 65 /\ c <= 90 THEN c + 32 ELSE c

\* str.lower()
lower(text) == [i \in 1..Len(text) |-> lower_char(text[i])]

\* The substring test `keyword in text`.
Contains(text, keyword) ==
  \E i \in 1..(Len(text) - Len(keyword) + 1) :
     \A k \in 1..Len(keyword) : text[i + k - 1] = keyword[k]

\* The literal alt matches text at position i under re.IGNORECASE.
MatchesAt(text, i, alt) ==
  /\ i + Len(alt) - 1 <= Len(text)
  /\ \A k \in 1..Len(alt) : lower_char(text[i + k - 1]) = lower_char(alt[k])

\* _build_crisis_keywords: crisis type -> keyword list, in dict order.
crisis_keywords ==
  <<
    [type |-> "suicide", keywords |-> <<
       <<1571, 1585, 1610, 1583, 32, 1571, 1606, 32, 1571, 1605, 1608, 1578>>,  \* أريد أن أموت
       <<1576, 1583, 1610, 32, 1571, 1605, 1608, 1578>>,  \* بدي أموت
       <<1606, 1601, 1587, 1610, 32, 1571, 1605, 1608, 1578>>,  \* نفسي أموت
       <<1571, 1602, 1578, 1604, 32, 1606, 1601, 1587, 1610>>,  \* أقتل نفسي
       <<1587, 1571, 1602, 1578, 1604, 32, 1606, 1601, 1587, 1610>>,  \* سأقتل نفسي
       <<1571, 1606, 1578, 1581, 1585>>,  \* أنتحر
       <<1575, 1606, 1578, 1581, 1575, 1585>>,  \* انتحار
       <<1571, 1606, 1607, 1610, 32, 1581, 1610, 1575, 1578, 1610>>,  \* أنهي حياتي
       <<1604, 1575, 32, 1571, 1585, 1610, 1583, 32, 1571, 1606, 32, 1571, 1593, 1610, 1588>>,  \* لا أريد أن أعيش
       <<1605, 1604, 1604, 1578, 32, 1605, 1606, 32, 1575, 1604, 1581, 1610, 1575, 1577>>,  \* مللت من الحياة
       <<1575, 1604, 1605, 1608, 1578, 32, 1571, 1581, 1587, 1606>>,  \* الموت أحسن
       <<1571, 1587, 1578, 1581, 1602, 32, 1575, 1604, 1605, 1608, 1578>>,  \* أستحق الموت
       <<1575, 1604, 1593, 1575, 1604, 1605, 32, 1571, 1581, 1587, 1606, 32, 1576, 1583, 1608, 1606, 1610>>,  \* العالم أحسن بدوني
       <<1571, 1584, 1607, 1576, 32, 1604, 1604, 1571, 1576, 1583>>,  \* أذهب للأبد
       <<1604, 1575, 32, 1601, 1575, 1574, 1583, 1577, 32, 1605, 1606, 32, 1608, 1580, 1608, 1583, 1610>>,  \* لا فائدة من وجودي
       <<1605, 1581, 1583, 32, 1610, 1581, 1578, 1575, 1580, 1606, 1610>>,  \* محد يحتاجني
       <<1593, 1576, 1569, 32, 1593, 1604, 1609, 32, 1575, 1604, 1580, 1605, 1610, 1593>>,  \* عبء على الجميع
       <<1571, 1585, 1578, 1575, 1581, 32, 1604, 1608, 32, 1605, 1578>>,  \* أرتاح لو مت
       <<1571, 1578, 1605, 1606, 1609, 32, 1571, 1606, 1575, 1605, 32, 1608, 1604, 1575, 32, 1571, 1589, 1581, 1609>>,  \* أتمنى أنام ولا أصحى
       <<1582, 1604, 1589, 1578, 32, 1605, 1606, 32, 1575, 1604, 1583, 1606, 1610, 1575>>,  \* خلصت من الدنيا
       <<1606, 1607, 1575, 1610, 1577, 32, 1575, 1604, 1605, 1591, 1575, 1601>>,  \* نهاية المطاف
       <<1570, 1582, 1585, 32, 1582, 1610, 1575, 1585>>,  \* آخر خيار
       <<1581, 1604, 32, 1606, 1607, 1575, 1574, 1610>>,  \* حل نهائي
       <<1585, 1575, 1581, 1577, 32, 1571, 1576, 1583, 1610, 1577>>,  \* راحة أبدية
       <<1571, 1582, 1591, 1591, 32, 1604, 1600>>,  \* أخطط لـ
       <<1602, 1585, 1585, 1578, 32, 1571, 1606>>,  \* قررت أن
       <<1604, 1606, 32, 1571, 1603, 1608, 1606, 32, 1607, 1606, 1575>>,  \* لن أكون هنا
       <<1608, 1583, 1575, 1593, 1575, 1611, 32, 1604, 1604, 1580, 1605, 1610, 1593>>,  \* وداعاً للجميع
       <<1570, 1582, 1585, 32, 1585, 1587, 1575, 1604, 1577>>,  \* آخر رسالة
       <<1578, 1608, 1583, 1610, 1593>>,  \* توديع
       <<1608, 1589, 1610, 1577>>,  \* وصية
       <<1575, 1606, 1578, 1607, 1609, 32, 1603, 1604, 32, 1588, 1610, 1569>>   \* انتهى كل شيء
       >>],
    [type |-> "self_harm", keywords |-> <<
       <<1571, 1572, 1584, 1610, 32, 1606, 1601, 1587, 1610>>,  \* أؤذي نفسي
       <<1571, 1580, 1585, 1581, 32, 1606, 1601, 1587, 1610>>,  \* أجرح نفسي
       <<1571, 1602, 1591, 1593, 32, 1606, 1601, 1587, 1610>>,  \* أقطع نفسي
       <<1571, 1590, 1585, 1576, 32, 1606, 1601, 1587, 1610>>,  \* أضرب نفسي
       <<1571, 1581, 1585, 1602, 32, 1606, 1601, 1587, 1610>>,  \* أحرق نفسي
       <<1571, 1593, 1584, 1576, 32, 1606, 1601, 1587, 1610>>,  \* أعذب نفسي
       <<1571, 1603, 1587, 1585>>,  \* أكسر
       <<1571, 1582, 1583, 1588>>,  \* أخدش
       <<1587, 1603, 1610, 1606>>,  \* سكين
       <<1588, 1601, 1585, 1577>>,  \* شفرة
       <<1581, 1585, 1602>>,  \* حرق
       <<1590, 1585, 1576>>,  \* ضرب
       <<1593, 1590>>,  \* عض
       <<1582, 1583, 1588>>,  \* خدش
       <<1571, 1587, 1578, 1581, 1602, 32, 1575, 1604, 1571, 1604, 1605>>,  \* أستحق الألم
       <<1571, 1593, 1575, 1602, 1576, 32, 1606, 1601, 1587, 1610>>,  \* أعاقب نفسي
       <<1571, 1587, 1578, 1581, 1602, 32, 1575, 1604, 1593, 1584, 1575, 1576>>,  \* أستحق العذاب
       <<1571, 1604, 1605, 32, 1580, 1587, 1583, 1610>>,  \* ألم جسدي
       <<1571, 1588, 1593, 1585, 32, 1576, 1575, 1604, 1571, 1604, 1605>>,  \* أشعر بالألم
       <<1583, 1605>>,  \* دم
       <<1580, 1585, 1608, 1581>>,  \* جروح
       <<1606, 1583, 1608, 1576>>,  \* ندوب
       <<1571, 1585, 1610, 1583, 32, 1571, 1606, 32, 1571, 1588, 1593, 1585, 32, 1576, 1588, 1610, 1569>>,  \* أريد أن أشعر بشيء
       <<1571, 1604, 1605, 32, 1581, 1602, 1610, 1602, 1610>>,  \* ألم حقيقي
       <<1571, 1604, 1605, 32, 1571, 1587, 1578, 1591, 1610, 1593, 32, 1585, 1572, 1610, 1578, 1607>>,  \* ألم أستطيع رؤيته
       <<1591, 1585, 1610, 1602, 1577, 32, 1604, 1604, 1578, 1581, 1603, 1605>>,  \* طريقة للتحكم
       <<1575, 1604, 1571, 1604, 1605, 32, 1575, 1604, 1608, 1581, 1610, 1583>>,  \* الألم الوحيد
       <<1571, 1578, 1581, 1603, 1605, 32, 1601, 1610, 32, 1571, 1604, 1605, 1610>>   \* أتحكم في ألمي
       >>],
    [type |-> "violence", keywords |-> <<
       <<1587, 1571, 1602, 1578, 1604>>,  \* سأقتل
       <<1571, 1585, 1610, 1583, 32, 1571, 1606, 32, 1571, 1572, 1584, 1610>>,  \* أريد أن أؤذي
       <<1587, 1571, 1590, 1585, 1576>>,  \* سأضرب
       <<1587, 1571, 1583, 1605, 1585>>,  \* سأدمر
       <<1571, 1606, 1578, 1602, 1605>>,  \* أنتقم
       <<1587, 1571, 1572, 1584, 1610, 32, 1605, 1606>>,  \* سأؤذي من
       <<1571, 1602, 1578, 1604, 1607>>,  \* أقتله
       <<1571, 1603, 1587, 1585, 32, 1585, 1571, 1587, 1607>>,  \* أكسر رأسه
       <<1571, 1601, 1580, 1585>>,  \* أفجر
       <<1571, 1581, 1585, 1602>>,  \* أحرق
       <<1571, 1583, 1605, 1585, 32, 1603, 1604, 32, 1588, 1610, 1569>>,  \* أدمر كل شيء
       <<1571, 1606, 1607, 1610, 32, 1575, 1604, 1580, 1605, 1610, 1593>>,  \* أنهي الجميع
       <<1604, 1575, 32, 1571, 1587, 1578, 1591, 1610, 1593, 32, 1575, 1604, 1578, 1581, 1603, 1605>>,  \* لا أستطيع التحكم
       <<1587, 1571, 1601, 1602, 1583, 32, 1575, 1604, 1587, 1610, 1591, 1585, 1577>>,  \* سأفقد السيطرة
       <<1594, 1590, 1576, 32, 1588, 1583, 1610, 1583>>,  \* غضب شديد
       <<1571, 1593, 1605, 1609, 32, 1605, 1606, 32, 1575, 1604, 1594, 1590, 1576>>,  \* أعمى من الغضب
       <<1587, 1571, 1601, 1593, 1604, 32, 1588, 1610, 1574, 1575, 1611, 32, 1587, 1610, 1574, 1575, 1611>>,  \* سأفعل شيئاً سيئاً
       <<1571, 1601, 1602, 1583, 32, 1593, 1602, 1604, 1610>>   \* أفقد عقلي
       >>],
    [type |-> "severe_depression", keywords |-> <<
       <<1604, 1575, 32, 1571, 1605, 1604>>,  \* لا أمل
       <<1604, 1575, 32, 1601, 1575, 1574, 1583, 1577>>,  \* لا فائدة
       <<1605, 1587, 1578, 1581, 1610, 1604>>,  \* مستحيل
       <<1605, 1610, 1572, 1608, 1587, 32, 1605, 1606, 1607>>,  \* ميؤوس منه
       <<1575, 1604, 1592, 1604, 1575, 1605, 32, 1601, 1602, 1591>>,  \* الظلام فقط
       <<1604, 1575, 32, 1590, 1608, 1569>>,  \* لا ضوء
       <<1606, 1601, 1602, 32, 1605, 1592, 1604, 1605>>,  \* نفق مظلم
       <<1604, 1575, 32, 1605, 1582, 1585, 1580>>,  \* لا مخرج
       <<1605, 1587, 1583, 1608, 1583, 32, 1575, 1604, 1571, 1601, 1602>>,  \* مسدود الأفق
       <<1604, 1575, 32, 1581, 1604>>,  \* لا حل
       <<1575, 1606, 1578, 1607, 1609, 32, 1603, 1604, 32, 1588, 1610, 1569>>,  \* انتهى كل شيء
       <<1604, 1575, 32, 1602, 1610, 1605, 1577, 32, 1604, 1610>>,  \* لا قيمة لي
       <<1601, 1575, 1588, 1604>>,  \* فاشل
       <<1593, 1583, 1610, 1605, 32, 1575, 1604, 1601, 1575, 1574, 1583, 1577>>,  \* عديم الفائدة
       <<1604, 1575, 32, 1571, 1587, 1578, 1581, 1602>>,  \* لا أستحق
       <<1571, 1587, 1608, 1571, 32, 1588, 1582, 1589>>,  \* أسوأ شخص
       <<1604, 1575, 32, 1571, 1589, 1604, 1581, 32, 1604, 1588, 1610, 1569>>,  \* لا أصلح لشيء
       <<1593, 1576, 1569, 32, 1593, 1604, 1609, 32, 1575, 1604, 1580, 1605, 1610, 1593>>,  \* عبء على الجميع
       <<1608, 1581, 1610, 1583, 32, 1578, 1605, 1575, 1605, 1575, 1611>>,  \* وحيد تماماً
       <<1605, 1581, 1583, 32, 1610, 1601, 1607, 1605, 1606, 1610>>,  \* محد يفهمني
       <<1605, 1581, 1583, 32, 1610, 1581, 1576, 1606, 1610>>,  \* محد يحبني
       <<1605, 1606, 1576, 1608, 1584>>,  \* منبوذ
       <<1604, 1575, 32, 1571, 1581, 1583, 32, 1610, 1607, 1578, 1605>>,  \* لا أحد يهتم
       <<1605, 1593, 1586, 1608, 1604>>,  \* معزول
       <<1605, 1606, 1601, 1585, 1583>>,  \* منفرد
       <<1608, 1581, 1588>>   \* وحش
       >>],
    [type |-> "psychosis", keywords |-> <<
       <<1571, 1587, 1605, 1593, 32, 1571, 1589, 1608, 1575, 1578>>,  \* أسمع أصوات
       <<1571, 1585, 1609, 32, 1571, 1588, 1610, 1575, 1569>>,  \* أرى أشياء
       <<1610, 1585, 1575, 1602, 1576, 1608, 1606, 1606, 1610>>,  \* يراقبونني
       <<1610, 1578, 1580, 1587, 1587, 1608, 1606>>,  \* يتجسسون
       <<1605, 1572, 1575, 1605, 1585, 1577, 32, 1590, 1583, 1610>>,  \* مؤامرة ضدي
       <<1610, 1591, 1575, 1585, 1583, 1608, 1606, 1606, 1610>>,  \* يطاردونني
       <<1589, 1608, 1578, 32, 1610, 1602, 1608, 1604, 32, 1604, 1610>>,  \* صوت يقول لي
       <<1571, 1588, 1610, 1575, 1569, 32, 1594, 1585, 1610, 1576, 1577>>,  \* أشياء غريبة
       <<1604, 1587, 1578, 32, 1581, 1602, 1610, 1602, 1610>>,  \* لست حقيقي
       <<1575, 1604, 1593, 1575, 1604, 1605, 32, 1604, 1610, 1587, 32, 1581, 1602, 1610, 1602, 1610>>,  \* العالم ليس حقيقي
       <<1571, 1601, 1603, 1575, 1585, 1610, 32, 1605, 1582, 1578, 1604, 1591, 1577>>,  \* أفكاري مختلطة
       <<1604, 1575, 32, 1571, 1601, 1607, 1605, 32, 1606, 1601, 1587, 1610>>,  \* لا أفهم نفسي
       <<1603, 1604, 1575, 1605, 32, 1594, 1610, 1585, 32, 1605, 1606, 1591, 1602, 1610>>,  \* كلام غير منطقي
       <<1585, 1587, 1575, 1574, 1604, 32, 1582, 1601, 1610, 1577>>,  \* رسائل خفية
       <<1605, 1593, 1575, 1606, 1610, 32, 1605, 1582, 1601, 1610, 1577>>,  \* معاني مخفية
       <<1593, 1604, 1575, 1605, 1575, 1578>>   \* علامات
       >>],
    [type |-> "substance_abuse", keywords |-> <<
       <<1571, 1601, 1585, 1591, 32, 1601, 1610>>,  \* أفرط في
       <<1573, 1583, 1605, 1575, 1606>>,  \* إدمان
       <<1605, 1582, 1583, 1585, 1575, 1578>>,  \* مخدرات
       <<1603, 1581, 1608, 1604>>,  \* كحول
       <<1581, 1576, 1608, 1576>>,  \* حبوب
       <<1604, 1575, 32, 1571, 1587, 1578, 1591, 1610, 1593, 32, 1575, 1604, 1578, 1608, 1602, 1601>>,  \* لا أستطيع التوقف
       <<1571, 1581, 1578, 1575, 1580, 32, 1575, 1604, 1605, 1586, 1610, 1583>>,  \* أحتاج المزيد
       <<1575, 1606, 1587, 1581, 1575, 1576>>,  \* انسحاب
       <<1580, 1585, 1593, 1577, 32, 1586, 1575, 1574, 1583, 1577>>,  \* جرعة زائدة
       <<1578, 1587, 1605, 1605>>,  \* تسمم
       <<1571, 1593, 1585, 1575, 1590>>,  \* أعراض
       <<1575, 1593, 1578, 1605, 1575, 1583>>   \* اعتماد
       >>]
  >>

\* _build_crisis_patterns: regex -> (crisis type, weight), in dict order.
\* Every regex has the shape (a1|a2|..).*(b1|b2|..); it is kept as its two
\* alternative lists. Weights are in thousandths.
crisis_patterns ==
  <<
    \* (أريد|بدي|نفسي).*(أموت|أقتل نفسي|أنتحر)  (suicide, 0.9)
    [first |-> << <<1571, 1585, 1610, 1583>>, <<1576, 1583, 1610>>, <<1606, 1601, 1587, 1610>> >>,
     second |-> << <<1571, 1605, 1608, 1578>>, <<1571, 1602, 1578, 1604, 32, 1606, 1601, 1587, 1610>>, <<1571, 1606, 1578, 1581, 1585>> >>,
     type |-> "suicide", weight |-> 900],
    \* (سأقتل|راح أقتل).*(نفسي|روحي)  (suicide, 0.95)
    [first |-> << <<1587, 1571, 1602, 1578, 1604>>, <<1585, 1575, 1581, 32, 1571, 1602, 1578, 1604>> >>,
     second |-> << <<1606, 1601, 1587, 1610>>, <<1585, 1608, 1581, 1610>> >>,
     type |-> "suicide", weight |-> 950],
    \* (لا أريد|ما بدي).*(أعيش|أكمل|أستمر)  (suicide, 0.8)
    [first |-> << <<1604, 1575, 32, 1571, 1585, 1610, 1583>>, <<1605, 1575, 32, 1576, 1583, 1610>> >>,
     second |-> << <<1571, 1593, 1610, 1588>>, <<1571, 1603, 1605, 1604>>, <<1571, 1587, 1578, 1605, 1585>> >>,
     type |-> "suicide", weight |-> 800],
    \* (أؤذي|أجرح|أقطع).*(نفسي|روحي)  (self_harm, 0.85)
    [first |-> << <<1571, 1572, 1584, 1610>>, <<1571, 1580, 1585, 1581>>, <<1571, 1602, 1591, 1593>> >>,
     second |-> << <<1606, 1601, 1587, 1610>>, <<1585, 1608, 1581, 1610>> >>,
     type |-> "self_harm", weight |-> 850],
    \* (شفرة|سكين|حرق).*(نفس|جسم)  (self_harm, 0.8)
    [first |-> << <<1588, 1601, 1585, 1577>>, <<1587, 1603, 1610, 1606>>, <<1581, 1585, 1602>> >>,
     second |-> << <<1606, 1601, 1587>>, <<1580, 1587, 1605>> >>,
     type |-> "self_harm", weight |-> 800],
    \* (سأقتل|راح أقتل|أقتل).*(كل|جميع|الناس)  (violence, 0.9)
    [first |-> << <<1587, 1571, 1602, 1578, 1604>>, <<1585, 1575, 1581, 32, 1571, 1602, 1578, 1604>>, <<1571, 1602, 1578, 1604>> >>,
     second |-> << <<1603, 1604>>, <<1580, 1605, 1610, 1593>>, <<1575, 1604, 1606, 1575, 1587>> >>,
     type |-> "violence", weight |-> 900],
    \* (أؤذي|أضرب|أكسر).*(أحد|شخص|واحد)  (violence, 0.7)
    [first |-> << <<1571, 1572, 1584, 1610>>, <<1571, 1590, 1585, 1576>>, <<1571, 1603, 1587, 1585>> >>,
     second |-> << <<1571, 1581, 1583>>, <<1588, 1582, 1589>>, <<1608, 1575, 1581, 1583>> >>,
     type |-> "violence", weight |-> 700],
    \* (لا أمل|لا فائدة|مستحيل).*(نهائياً|أبداً|تماماً)  (severe_depression, 0.7)
    [first |-> << <<1604, 1575, 32, 1571, 1605, 1604>>, <<1604, 1575, 32, 1601, 1575, 1574, 1583, 1577>>, <<1605, 1587, 1578, 1581, 1610, 1604>> >>,
     second |-> << <<1606, 1607, 1575, 1574, 1610, 1575, 1611>>, <<1571, 1576, 1583, 1575, 1611>>, <<1578, 1605, 1575, 1605, 1575, 1611>> >>,
     type |-> "severe_depression", weight |-> 700],
    \* (عبء|فاشل|عديم).*(الجميع|الكل|الناس)  (severe_depression, 0.6)
    [first |-> << <<1593, 1576, 1569>>, <<1601, 1575, 1588, 1604>>, <<1593, 1583, 1610, 1605>> >>,
     second |-> << <<1575, 1604, 1580, 1605, 1610, 1593>>, <<1575, 1604, 1603, 1604>>, <<1575, 1604, 1606, 1575, 1587>> >>,
     type |-> "severe_depression", weight |-> 600]
  >>

\* Mutant of omani_crisis_expressions: a table whose one entry is an idiom of
\* substance_abuse (كحول).
omani_crisis_expressions_substance ==
  << [type |-> "substance_abuse", expressions |-> << <<1603, 1581, 1608, 1604>> >>] >>

\* _build_omani_crisis_expressions: crisis type -> idiom list, in dict order.
omani_crisis_expressions ==
  <<
    [type |-> "suicide", expressions |-> <<
       <<1582, 1604, 1575, 1589, 32, 1578, 1593, 1576, 1578, 32, 1605, 1606, 32, 1575, 1604, 1583, 1606, 1610, 1575>>,  \* خلاص تعبت من الدنيا
       <<1605, 1575, 32, 1593, 1583, 32, 1571, 1602, 1583, 1585, 32, 1571, 1603, 1605, 1604>>,  \* ما عد أقدر أكمل
       <<1571, 1585, 1578, 1575, 1581, 32, 1604, 1608, 32, 1585, 1581, 1578>>,  \* أرتاح لو رحت
       <<1605, 1604, 1604, 1578, 32, 1605, 1606, 32, 1603, 1604, 32, 1588, 1610>>,  \* مللت من كل شي
       <<1605, 1575, 32, 1604, 1610, 32, 1601, 1575, 1610, 1583, 1577>>,  \* ما لي فايدة
       <<1575, 1604, 1605, 1608, 1578, 32, 1571, 1581, 1587, 1606, 32, 1604, 1610>>,  \* الموت أحسن لي
       <<1582, 1604, 1589, 1578, 32, 1605, 1606, 32, 1607, 1575, 1604, 1581, 1610, 1575, 1577>>   \* خلصت من هالحياة
       >>],
    [type |-> "self_harm", expressions |-> <<
       <<1571, 1593, 1584, 1576, 32, 1585, 1608, 1581, 1610>>,  \* أعذب روحي
       <<1571, 1608, 1580, 1593, 32, 1606, 1601, 1587, 1610>>,  \* أوجع نفسي
       <<1571, 1590, 1585, 32, 1576, 1585, 1608, 1581, 1610>>,  \* أضر بروحي
       <<1571, 1587, 1578, 1575, 1607, 1604, 32, 1575, 1604, 1571, 1604, 1605>>,  \* أستاهل الألم
       <<1571, 1604, 1605, 32, 1571, 1581, 1587, 1607, 32, 1576, 1580, 1587, 1605, 1610>>   \* ألم أحسه بجسمي
       >>],
    [type |-> "severe_depression", expressions |-> <<
       <<1605, 1581, 1591, 1605, 32, 1606, 1601, 1587, 1610, 1575, 1611, 32, 1608, 1575, 1580, 1583>>,  \* محطم نفسياً واجد
       <<1590, 1575, 1610, 1602, 32, 1589, 1583, 1585, 1610, 32, 1605, 1585, 1577>>,  \* ضايق صدري مرة
       <<1602, 1604, 1576, 1610, 32, 1605, 1603, 1587, 1608, 1585>>,  \* قلبي مكسور
       <<1581, 1575, 1604, 1578, 1610, 32, 1586, 1610, 1606, 1577, 32, 1605, 1575, 32, 1607, 1610>>,  \* حالتي زينة ما هي
       <<1606, 1601, 1587, 1610, 1578, 1610, 32, 1601, 1610, 32, 1575, 1604, 1571, 1585, 1590>>,  \* نفسيتي في الأرض
       <<1583, 1575, 1610, 1582, 32, 1605, 1606, 32, 1575, 1604, 1607, 1605, 1608, 1605>>   \* دايخ من الهموم
       >>],
    [type |-> "violence", expressions |-> <<
       <<1585, 1575, 1581, 32, 1571, 1603, 1587, 1585, 32, 1603, 1604, 32, 1588, 1610>>,  \* راح أكسر كل شي
       <<1571, 1601, 1580, 1585, 32, 1601, 1610, 1607, 1605>>,  \* أفجر فيهم
       <<1571, 1608, 1585, 1580, 1610, 1607, 1605>>,  \* أورجيهم
       <<1571, 1582, 1604, 1610, 1607, 1605, 32, 1610, 1606, 1583, 1605, 1608, 1606>>,  \* أخليهم يندمون
       <<1605, 1575, 32, 1585, 1575, 1581, 32, 1571, 1587, 1603, 1578>>   \* ما راح أسكت
       >>]
  >>

\* _build_emergency_resources: group -> (name -> contact string).
emergency_resources ==
  [
    emergency |-> [
       general_emergency |-> <<57, 57, 57>>,  \* 999
       police |-> <<57, 57, 57>>,  \* 999
       ambulance |-> <<57, 57, 57>>,  \* 999
       fire |-> <<57, 57, 57>>   \* 999
       ],
    hospitals |-> [
       sultan_qaboos_hospital |-> <<43, 57, 54, 56, 32, 50, 52, 50, 49, 49, 52, 49, 49>>,  \* +968 24211411
       royal_hospital |-> <<43, 57, 54, 56, 32, 50, 52, 53, 57, 57, 48, 48, 48>>,  \* +968 24599000
       khoula_hospital |-> <<43, 57, 54, 56, 32, 50, 52, 53, 54, 48, 52, 52, 49>>,  \* +968 24560441
       nizwa_hospital |-> <<43, 57, 54, 56, 32, 50, 53, 52, 51, 49, 56, 48, 48>>   \* +968 25431800
       ],
    mental_health |-> [
       mental_health_hotline |-> <<1605, 1603, 1578, 1608, 1576, 32, 1602, 1585, 1610, 1576, 1575, 1611>>,  \* مكتوب قريباً
       psychological_services |-> <<1608, 1586, 1575, 1585, 1577, 32, 1575, 1604, 1589, 1581, 1577, 32, 45, 32, 1575, 1604, 1582, 1583, 1605, 1575, 1578, 32, 1575, 1604, 1606, 1601, 1587, 1610, 1577>>,  \* وزارة الصحة - الخدمات النفسية
       crisis_intervention |-> <<1602, 1587, 1605, 32, 1575, 1604, 1591, 1608, 1575, 1585, 1574, 32, 1575, 1604, 1606, 1601, 1587, 1610, 1577>>,  \* قسم الطوارئ النفسية
       social_services |-> <<1608, 1586, 1575, 1585, 1577, 32, 1575, 1604, 1578, 1606, 1605, 1610, 1577, 32, 1575, 1604, 1575, 1580, 1578, 1605, 1575, 1593, 1610, 1577>>   \* وزارة التنمية الاجتماعية
       ],
    support |-> [
       family_guidance |-> <<1605, 1585, 1575, 1603, 1586, 32, 1575, 1604, 1573, 1585, 1588, 1575, 1583, 32, 1575, 1604, 1571, 1587, 1585, 1610>>,  \* مراكز الإرشاد الأسري
       youth_centers |-> <<1605, 1585, 1575, 1603, 1586, 32, 1575, 1604, 1588, 1576, 1575, 1576>>,  \* مراكز الشباب
       women_centers |-> <<1605, 1585, 1575, 1603, 1586, 32, 1575, 1604, 1605, 1585, 1571, 1577>>,  \* مراكز المرأة
       community_centers |-> <<1575, 1604, 1605, 1585, 1575, 1603, 1586, 32, 1575, 1604, 1605, 1580, 1578, 1605, 1593, 1610, 1577>>   \* المراكز المجتمعية
       ]
  ]
(***************************************************************************)
(* Channel matchers.                                                       *)
(***************************************************************************)
\* Mutant of FoundIn: the substring test is reversed (text in keyword).
FoundIn_reversed(list, text) == SelectSeq(list, LAMBDA keyword : Contains(lower(keyword), text))

\* The entries of list (keywords or expressions) that occur in text, in list
\* order: the inner loop `if keyword.lower() in text`.
FoundIn(list, text) == SelectSeq(list, LAMBDA keyword : Contains(text, lower(keyword)))

RECURSIVE KeywordLoop(_, _, _)
\* The loop of _check_crisis_keywords from the i-th table entry on.
KeywordLoop(text, i, results) ==
  IF i > Len(crisis_keywords) THEN results
  ELSE LET crisis_type == crisis_keywords[i].type
           found_keywords == FoundIn(crisis_keywords[i].keywords, text)
           score == Len(found_keywords)
       IN KeywordLoop(text, i + 1,
            IF score > 0
            THEN [types |-> Append(results.types, crisis_type),
                  scores |-> Update(results.scores, crisis_type :> score * 1000),
                  keywords_found |-> results.keywords_found \o found_keywords]
            ELSE results)

\* Mutant of _check_crisis_keywords: every type of the table is listed, a
\* type without a match with score 0.
_check_crisis_keywords_lists_all(text) ==
  LET results == KeywordLoop(text, 1, [types |-> <<>>, scores |-> EmptyDict,
                                       keywords_found |-> <<>>])
      all_types == [i \in DOMAIN crisis_keywords |-> crisis_keywords[i].type]
  IN [types |-> all_types,
      scores |-> [crisis_type \in Range(all_types) |-> Get(results.scores, crisis_type, 0)],
      keywords_found |-> results.keywords_found]

\* _check_crisis_keywords(text): one point (1000) for each keyword of the
\* type's list that occurs in text.
_check_crisis_keywords(text) ==
  KeywordLoop(text, 1, [types |-> <<>>, scores |-> EmptyDict, keywords_found |-> <<>>])

\* The last position the greedy `.*` reaches from position p: it stops before
\* the next line feed or at the end of text.
DotStarEnd(text, p) ==
  LET stops == {e \in p..Len(text) : text[e] = NewLine}
  IN IF stops = {} THEN Len(text)
     ELSE (CHOOSE e \in stops : \A f \in stops : e <= f) - 1

\* The match of (a1|a2|..).*(b1|b2|..) that starts at position i, as the
\* backtracking matcher finds it: the first alternative a that matches at i
\* and has a b after it on the same line; `.*` is greedy, so b is taken at
\* its last position, and there the first alternative in order.  The result
\* is [last, groups]: the index of the last matched character and the two
\* groups, or last = 0 when there is no match at i.
MatchFrom(pattern, text, i) ==
  LET Seconds(a) ==
        {j \in (i + Len(pattern.first[a]))..(DotStarEnd(text, i + Len(pattern.first[a])) + 1) :
           \E b \in 1..Len(pattern.second) : MatchesAt(text, j, pattern.second[b])}
      firsts == {a \in 1..Len(pattern.first) :
                   MatchesAt(text, i, pattern.first[a]) /\ Seconds(a) # {}}
  IN IF firsts = {} THEN [last |-> 0, groups |-> <<>>]
     ELSE LET a == CHOOSE x \in firsts : \A y \in firsts : x <= y
              j == CHOOSE x \in Seconds(a) : \A y \in Seconds(a) : x >= y
              bs == {b \in 1..Len(pattern.second) : MatchesAt(text, j, pattern.second[b])}
              b == CHOOSE x \in bs : \A y \in bs : x <= y
          IN [last |-> j + Len(pattern.second[b]) - 1,
              groups |-> <<SubSeq(text, i, i + Len(pattern.first[a]) - 1),
                           SubSeq(text, j, j + Len(pattern.second[b]) - 1)>>]

RECURSIVE FindallFrom(_, _, _)
\* re.findall from position pos on: the non-overlapping matches, left to right.
FindallFrom(pattern, text, pos) ==
  IF pos > Len(text) THEN <<>>
  ELSE LET m == MatchFrom(pattern, text, pos)
       IN IF m.last = 0 THEN FindallFrom(pattern, text, pos + 1)
          ELSE <<m.groups>> \o FindallFrom(pattern, text, m.last + 1)

\* re.findall(pattern, text, re.IGNORECASE)
findall(pattern, text) == FindallFrom(pattern, text, 1)

RECURSIVE PatternLoop(_, _, _)
\* The loop of _check_crisis_patterns from the i-th pattern on.
PatternLoop(text, i, results) ==
  IF i > Len(crisis_patterns) THEN results
  ELSE LET matches == findall(crisis_patterns[i], text)
           type_name == crisis_patterns[i].type
           weight == crisis_patterns[i].weight
           known == type_name \in DOMAIN results.scores
       IN PatternLoop(text, i + 1,
            IF matches # <<>>
            THEN [types |-> IF known THEN results.types ELSE Append(results.types, type_name),
                  scores |-> Update(results.scores,
                               type_name :> (Get(results.scores, type_name, 0) + Len(matches) * weight)),
                  patterns_found |-> results.patterns_found \o matches]
            ELSE results)

\* _check_crisis_patterns(text): weight for each match of each pattern, summed by type.
_check_crisis_patterns(text) ==
  PatternLoop(text, 1, [types |-> <<>>, scores |-> EmptyDict, patterns_found |-> <<>>])

\* The score one dialect expression adds (1.2).
DialectWeight == 1200

RECURSIVE DialectLoop(_, _, _)
\* The loop of _check_omani_expressions from the i-th table entry on.
DialectLoop(text, i, results) ==
  IF i > Len(omani_crisis_expressions) THEN results
  ELSE LET type_name == omani_crisis_expressions[i].type
           found_expressions == FoundIn(omani_crisis_expressions[i].expressions, text)
           score == Len(found_expressions) * DialectWeight
       IN DialectLoop(text, i + 1,
            IF score > 0
            THEN [types |-> Append(results.types, type_name),
                  scores |-> Update(results.scores, type_name :> score),
                  expressions_found |-> results.expressions_found \o found_expressions]
            ELSE results)

\* _check_omani_expressions(text): 1.2 for each expression of the type's list in text.
_check_omani_expressions(text) ==
  DialectLoop(text, 1, [types |-> <<>>, scores |-> EmptyDict, expressions_found |-> <<>>])

(***************************************************************************)
(* Score fusion.                                                           *)
(***************************************************************************)
\* The fusion weights 0.3, 0.5 and 0.4, in tenths.
KeywordWeight == 3

PatternWeight == 5

DialectChannelWeight == 4

\* Mutant of _calculate_combined_score: the keyword and the pattern weight
\* are exchanged.
_calculate_combined_score_weights_swapped(keyword_results, pattern_results, dialect_results) ==
  LET all_types == Range(keyword_results.types) \cup Range(pattern_results.types)
                    \cup Range(dialect_results.types)
      combined_scores == [crisis_type \in all_types |->
         (Get(keyword_results.scores, crisis_type, 0) * PatternWeight
          + Get(pattern_results.scores, crisis_type, 0) * KeywordWeight
          + Get(dialect_results.scores, crisis_type, 0) * DialectChannelWeight) \div 10]
  IN [types |-> ListOfSet(all_types),
      scores |-> combined_scores,
      total_score |-> SumValues(combined_scores),
      keyword_details |-> keyword_results,
      pattern_details |-> pattern_results,
      dialect_details |-> dialect_results]

\* Mutant of _calculate_combined_score: the type lists of the channels are
\* concatenated, a type two channels report is listed twice.
_calculate_combined_score_types_concatenated(keyword_results, pattern_results, dialect_results) ==
  LET all_types == Range(keyword_results.types) \cup Range(pattern_results.types)
                    \cup Range(dialect_results.types)
      combined_scores == [crisis_type \in all_types |->
         (Get(keyword_results.scores, crisis_type, 0) * KeywordWeight
          + Get(pattern_results.scores, crisis_type, 0) * PatternWeight
          + Get(dialect_results.scores, crisis_type, 0) * DialectChannelWeight) \div 10]
  IN [types |-> keyword_results.types \o pattern_results.types \o dialect_results.types,
      scores |-> combined_scores,
      total_score |-> SumValues(combined_scores),
      keyword_details |-> keyword_results,
      pattern_details |-> pattern_results,
      dialect_details |-> dialect_results]

\* Mutant of _calculate_combined_score: the dialect channel is subtracted.
_calculate_combined_score_dialect_subtracted(keyword_results, pattern_results, dialect_results) ==
  LET all_types == Range(keyword_results.types) \cup Range(pattern_results.types)
                    \cup Range(dialect_results.types)
      combined_scores == [crisis_type \in all_types |->
         (Get(keyword_results.scores, crisis_type, 0) * KeywordWeight
          + Get(pattern_results.scores, crisis_type, 0) * PatternWeight
          - Get(dialect_results.scores, crisis_type, 0) * DialectChannelWeight) \div 10]
  IN [types |-> ListOfSet(all_types),
      scores |-> combined_scores,
      total_score |-> SumValues(combined_scores),
      keyword_details |-> keyword_results,
      pattern_details |-> pattern_results,
      dialect_details |-> dialect_results]

\* _calculate_combined_score
_calculate_combined_score(keyword_results, pattern_results, dialect_results) ==
  LET all_types == Range(keyword_results.types) \cup Range(pattern_results.types)
                     \cup Range(dialect_results.types)
      combined_scores ==
        [crisis_type \in all_types |->
           (Get(keyword_results.scores, crisis_type, 0) * KeywordWeight
            + Get(pattern_results.scores, crisis_type, 0) * PatternWeight
            + Get(dialect_results.scores, crisis_type, 0) * DialectChannelWeight) \div 10]
  IN [types |-> ListOfSet(all_types),
      scores |-> combined_scores,
      total_score |-> SumValues(combined_scores),
      keyword_details |-> keyword_results,
      pattern_details |-> pattern_results,
      dialect_details |-> dialect_results]

(***************************************************************************)
(* Input texts of the model.                                               *)
(***************************************************************************)
\* the empty text: 
TextEmpty == <<>>

\* white space only: two blanks, a line feed, a tab:    /  
TextWhitespace == <<32, 32, 10, 9>>

\* scenario 1 of the specification: أريد أن أموت، قررت إنهاء حياتي الليلة
TextSuicidePlan == <<1571, 1585, 1610, 1583, 32, 1571, 1606, 32, 1571, 1605, 1608, 1578, 1548, 32, 1602, 1585, 1585, 1578, 32, 1573, 1606, 1607, 1575, 1569, 32, 1581, 1610, 1575, 1578, 1610, 32, 1575, 1604, 1604, 1610, 1604, 1577>>

\* one severe_depression keyword: فاشل
TextFailure == <<1601, 1575, 1588, 1604>>

\* two severe_depression keywords: فاشل منبوذ
TextOutcast == <<1601, 1575, 1588, 1604, 32, 1605, 1606, 1576, 1608, 1584>>

\* one severe_depression idiom of the dialect table: قلبي مكسور
TextBrokenHeart == <<1602, 1604, 1576, 1610, 32, 1605, 1603, 1587, 1608, 1585>>

\* a suicide keyword and pattern, a severe_depression keyword: لا أريد أن أعيش فاشل
TextNoLife == <<1604, 1575, 32, 1571, 1585, 1610, 1583, 32, 1571, 1606, 32, 1571, 1593, 1610, 1588, 32, 1601, 1575, 1588, 1604>>

\* four keywords of three types: فاشل ضرب دم إدمان
TextFour == <<1601, 1575, 1588, 1604, 32, 1590, 1585, 1576, 32, 1583, 1605, 32, 1573, 1583, 1605, 1575, 1606>>

\* five keywords of three types: فاشل ضرب دم إدمان كحول
TextFive == <<1601, 1575, 1588, 1604, 32, 1590, 1585, 1576, 32, 1583, 1605, 32, 1573, 1583, 1605, 1575, 1606, 32, 1603, 1581, 1608, 1604>>

\* three lines, each a suicide keyword and pattern: أريد أن أموت / سأقتل نفسي / لا أريد أن أعيش
TextCritical == <<1571, 1585, 1610, 1583, 32, 1571, 1606, 32, 1571, 1605, 1608, 1578, 10, 1587, 1571, 1602, 1578, 1604, 32, 1606, 1601, 1587, 1610, 10, 1604, 1575, 32, 1571, 1585, 1610, 1583, 32, 1571, 1606, 32, 1571, 1593, 1610, 1588>>
\* The texts given to assess_crisis_level in Spec.
Texts ==
  {TextEmpty, TextWhitespace, TextSuicidePlan, TextFailure, TextOutcast,
   TextBrokenHeart, TextNoLife, TextCritical}

\* The texts of SpecSession: total scores 0.3, 1.0, 1.2 and 1.5.
SessionTexts == {TextFailure, TextNoLife, TextFour, TextFive}

\* The texts of SpecLong: total scores 0.3, 1.0 and 1.5.
LongTexts == {TextFailure, TextNoLife, TextFive}

\* The texts of SpecRepeat: total scores 0.3, 0.48 and 0.6, the last one of
\* medium level.
RepeatTexts == {TextFailure, TextBrokenHeart, TextOutcast}

\* The session_id arguments of Spec: absent, empty, and two sessions.
SessionIds == {None, "", "s1", "s2"}

(***************************************************************************)
(* Level classifier.                                                       *)
(***************************************************************************)
\* Mutant of _determine_crisis_level: the first rule returns HIGH.
_determine_crisis_level_capped(combined_score) ==
  LET total_score == combined_score.total_score
      detected_types == combined_score.types
  IN IF total_score >= 3000 THEN CrisisLevel.HIGH
     ELSE IF InList("suicide", detected_types) /\ total_score >= 2000 THEN CrisisLevel.CRITICAL
     ELSE IF InList("violence", detected_types) /\ total_score >= 2500 THEN CrisisLevel.CRITICAL
     ELSE IF total_score >= 2000 THEN CrisisLevel.HIGH
     ELSE IF (InList("suicide", detected_types) \/ InList("self_harm", detected_types))
             /\ total_score >= 1000 THEN CrisisLevel.HIGH
     ELSE IF total_score >= 1000 THEN CrisisLevel.MEDIUM
     ELSE IF InList("severe_depression", detected_types) /\ total_score >= 500
          THEN CrisisLevel.MEDIUM
     ELSE CrisisLevel.LOW

\* Mutant of _determine_crisis_level: the suicide thresholds are exclusive.
_determine_crisis_level_exclusive(combined_score) ==
  LET total_score == combined_score.total_score
      detected_types == combined_score.types
  IN IF total_score >= 3000 THEN CrisisLevel.CRITICAL
     ELSE IF InList("suicide", detected_types) /\ total_score > 2000 THEN CrisisLevel.CRITICAL
     ELSE IF InList("violence", detected_types) /\ total_score >= 2500 THEN CrisisLevel.CRITICAL
     ELSE IF total_score >= 2000 THEN CrisisLevel.HIGH
     ELSE IF (InList("suicide", detected_types) \/ InList("self_harm", detected_types))
             /\ total_score > 1000 THEN CrisisLevel.HIGH
     ELSE IF total_score >= 1000 THEN CrisisLevel.MEDIUM
     ELSE IF InList("severe_depression", detected_types) /\ total_score >= 500
          THEN CrisisLevel.MEDIUM
     ELSE CrisisLevel.LOW

\* Mutant of _determine_crisis_level: the generic HIGH rule (score >= 2.0) is
\* tested before the violence rule (score >= 2.5).
_determine_crisis_level_high_first(combined_score) ==
  LET total_score == combined_score.total_score
      detected_types == combined_score.types
  IN IF total_score >= 3000 THEN CrisisLevel.CRITICAL
     ELSE IF InList("suicide", detected_types) /\ total_score >= 2000 THEN CrisisLevel.CRITICAL
     ELSE IF total_score >= 2000 THEN CrisisLevel.HIGH
     ELSE IF InList("violence", detected_types) /\ total_score >= 2500 THEN CrisisLevel.CRITICAL
     ELSE IF (InList("suicide", detected_types) \/ InList("self_harm", detected_types))
             /\ total_score >= 1000 THEN CrisisLevel.HIGH
     ELSE IF total_score >= 1000 THEN CrisisLevel.MEDIUM
     ELSE IF InList("severe_depression", detected_types) /\ total_score >= 500
          THEN CrisisLevel.MEDIUM
     ELSE CrisisLevel.LOW

\* _determine_crisis_level
_determine_crisis_level(combined_score) ==
  LET total_score == combined_score.total_score
      detected_types == combined_score.types
  IN IF total_score >= 3000 THEN CrisisLevel.CRITICAL
     ELSE IF InList("suicide", detected_types) /\ total_score >= 2000 THEN CrisisLevel.CRITICAL
     ELSE IF InList("violence", detected_types) /\ total_score >= 2500 THEN CrisisLevel.CRITICAL
     ELSE IF total_score >= 2000 THEN CrisisLevel.HIGH
     ELSE IF (InList("suicide", detected_types) \/ InList("self_harm", detected_types))
             /\ total_score >= 1000 THEN CrisisLevel.HIGH
     ELSE IF total_score >= 1000 THEN CrisisLevel.MEDIUM
     ELSE IF InList("severe_depression", detected_types) /\ total_score >= 500
          THEN CrisisLevel.MEDIUM
     ELSE CrisisLevel.LOW

(***************************************************************************)
(* Session tracker.                                                        *)
(***************************************************************************)
\* Mutant of LastN: the slice keeps the first n elements, l[:n].
LastN_first(l, n) == SubSeq(l, 1, IF Len(l) > n THEN n ELSE Len(l))

\* Mutant of LastN: the slice keeps the whole list.
LastN_whole(l, n) == l

\* l[-n:]
LastN(l, n) == SubSeq(l, IF Len(l) > n THEN Len(l) - n + 1 ELSE 1, Len(l))

\* Mutant of EscalatingPattern: the comparison of neighbours is <=.
EscalatingPattern_non_strict(history) ==
  /\ Len(history) >= 3
  /\ LET recent_scores == [i \in DOMAIN LastN(history, 3) |-> LastN(history, 3)[i].score]
     IN \A i \in 1..(Len(recent_scores) - 1) : recent_scores[i] <= recent_scores[i + 1]

\* The escalating-pattern test: at least three records, and the scores of
\* history[-3:] strictly increasing.
EscalatingPattern(history) ==
  /\ Len(history) >= 3
  /\ LET recent_scores == [i \in DOMAIN LastN(history, 3) |-> LastN(history, 3)[i].score]
     IN \A i \in 1..(Len(recent_scores) - 1) : recent_scores[i] < recent_scores[i + 1]

\* Mutant of PersistentCrisis: a record of exactly 1.0 counts.
PersistentCrisis_inclusive(history) ==
  LET crisis_count == Cardinality({i \in DOMAIN history : history[i].score >= 1000})
  IN crisis_count >= 2

\* The persistent-crisis test: at least two records of history score above 1.0.
PersistentCrisis(history) ==
  LET crisis_count == Cardinality({i \in DOMAIN history : history[i].score > 1000})
  IN crisis_count >= 2

\* Mutant of SessionRisk: the two rules add up.
SessionRisk_additive(history) ==
  (IF EscalatingPattern(history) THEN 500 ELSE 0)
  + (IF PersistentCrisis(history) THEN 300 ELSE 0)

\* The value _analyze_session_patterns returns for the stored history:
\* 0.5, 0.3 or 0.0, the first rule that holds.
SessionRisk(history) ==
  IF EscalatingPattern(history) THEN 500
  ELSE IF PersistentCrisis(history) THEN 300
  ELSE 0

\* Mutant of _analyze_session_patterns: the map is rebuilt with the session
\* of the turn alone, every other session is dropped.
_analyze_session_patterns_single_session(history_map, session_id, current_score, now) ==
  LET created == IF session_id \notin DOMAIN history_map
                 THEN session_id :> <<>>
                 ELSE session_id :> history_map[session_id]
      appended == Append(created[session_id],
                         [timestamp |-> now,
                          score |-> current_score.total_score,
                          types |-> current_score.types])
      history == LastN(appended, 10)
  IN [session_history |-> [created EXCEPT ![session_id] = history],
      risk |-> SessionRisk(history)]

\* Mutant of _analyze_session_patterns: the persistent-crisis count runs over
\* the records of every session.
_analyze_session_patterns_global_count(history_map, session_id, current_score, now) ==
  LET created == IF session_id \notin DOMAIN history_map
                 THEN Update(history_map, session_id :> <<>>)
                 ELSE history_map
      appended == Append(created[session_id],
                         [timestamp |-> now,
                          score |-> current_score.total_score,
                          types |-> current_score.types])
      history == LastN(appended, 10)
      stored == [created EXCEPT ![session_id] = history]
      crisis_count == Cardinality({entry \in {<<id, i>> : id \in DOMAIN stored, i \in 1..10} :
                                     /\ entry[2] <= Len(stored[entry[1]])
                                     /\ stored[entry[1]][entry[2]].score > 1000})
  IN [session_history |-> stored,
      risk |-> IF EscalatingPattern(history) THEN 500
               ELSE IF crisis_count >= 2 THEN 300 ELSE 0]

\* Mutant of _analyze_session_patterns: the list is never sliced, every
\* record of the session is kept and counted.
_analyze_session_patterns_unbounded(history_map, session_id, current_score, now) ==
  LET created == IF session_id \notin DOMAIN history_map
                 THEN Update(history_map, session_id :> <<>>)
                 ELSE history_map
      appended == Append(created[session_id],
                         [timestamp |-> now,
                          score |-> current_score.total_score,
                          types |-> current_score.types])
  IN [session_history |-> [created EXCEPT ![session_id] = appended],
      risk |-> SessionRisk(appended)]

\* _analyze_session_patterns on the session map history_map at time now:
\* the map it leaves in self.session_history and the risk it returns.
_analyze_session_patterns(history_map, session_id, current_score, now) ==
  LET created == IF session_id \notin DOMAIN history_map
                 THEN Update(history_map, session_id :> <<>>)
                 ELSE history_map
      appended == Append(created[session_id],
                         [timestamp |-> now,
                          score |-> current_score.total_score,
                          types |-> current_score.types])
      history == LastN(appended, 10)
  IN [session_history |-> [created EXCEPT ![session_id] = history],
      risk |-> SessionRisk(history)]

(***************************************************************************)
(* Resource resolver.                                                      *)
(***************************************************************************)
\* Mutant of _get_relevant_resources: every type other than the four that
\* have no resources of their own counts as a mental-health type.
_get_relevant_resources_by_exclusion(crisis_types) ==
  LET general == Update(EmptyDict, emergency_resources.emergency)
      specific ==
        IF \E i \in DOMAIN crisis_types :
              crisis_types[i] \notin {"violence", "psychosis", "substance_abuse",
                                      "eating_disorder"}
        THEN Update(Update(general, emergency_resources.mental_health),
                    emergency_resources.hospitals)
        ELSE general
      police ==
        IF InList("violence", crisis_types)
        THEN Update(specific, "police" :> emergency_resources.emergency.police)
        ELSE specific
  IN Update(police, emergency_resources.support)

\* Mutant of _get_relevant_resources: the general emergency set is left out,
\* only the violence branch adds the police.
_get_relevant_resources_no_general(crisis_types) ==
  LET specific ==
        IF \E t \in {"suicide", "self_harm", "severe_depression"} : InList(t, crisis_types)
        THEN Update(Update(EmptyDict, emergency_resources.mental_health),
                    emergency_resources.hospitals)
        ELSE EmptyDict
      police ==
        IF InList("violence", crisis_types)
        THEN Update(specific, "police" :> emergency_resources.emergency.police)
        ELSE specific
  IN Update(police, emergency_resources.support)

\* Mutant of _get_relevant_resources: all three types must be detected, not any.
_get_relevant_resources_all(crisis_types) ==
  LET general == Update(EmptyDict, emergency_resources.emergency)
      specific ==
        IF \A t \in {"suicide", "self_harm", "severe_depression"} : InList(t, crisis_types)
        THEN Update(Update(general, emergency_resources.mental_health),
                    emergency_resources.hospitals)
        ELSE general
      police ==
        IF InList("violence", crisis_types)
        THEN Update(specific, "police" :> emergency_resources.emergency.police)
        ELSE specific
  IN Update(police, emergency_resources.support)

\* Mutant of _get_relevant_resources: the violence branch stores the police
\* number under a key of its own, police_contact.
_get_relevant_resources_police_contact(crisis_types) ==
  LET general == Update(EmptyDict, emergency_resources.emergency)
      specific ==
        IF \E t \in {"suicide", "self_harm", "severe_depression"} : InList(t, crisis_types)
        THEN Update(Update(general, emergency_resources.mental_health),
                    emergency_resources.hospitals)
        ELSE general
      police ==
        IF InList("violence", crisis_types)
        THEN Update(specific, "police_contact" :> emergency_resources.emergency.police)
        ELSE specific
  IN Update(police, emergency_resources.support)

\* _get_relevant_resources
_get_relevant_resources(crisis_types) ==
  LET general == Update(EmptyDict, emergency_resources.emergency)
      specific ==
        IF \E t \in {"suicide", "self_harm", "severe_depression"} : InList(t, crisis_types)
        THEN Update(Update(general, emergency_resources.mental_health),
                    emergency_resources.hospitals)
        ELSE general
      police ==
        IF InList("violence", crisis_types)
        THEN Update(specific, "police" :> emergency_resources.emergency.police)
        ELSE specific
  IN Update(police, emergency_resources.support)

(***************************************************************************)
(* The response composer.  A response is a fixed text, kept as the         *)
(* sequence of its code points like every other string.                    *)
(***************************************************************************)
\* The text _generate_critical_response returns when "suicide" is listed (lines 542-551).
\* It begins: أفهم أنك تمر بوقت صعب جداً، لكن حياتك مهمة وقيمة.
CriticalSuicideTemplate ==
  <<10, 128680, 32, 1571, 1601, 1607, 1605, 32, 1571, 1606, 1603, 32, 1578,
    1605, 1585, 32, 1576, 1608, 1602, 1578, 32, 1589, 1593, 1576, 32, 1580,
    1583, 1575, 1611, 1548, 32, 1604, 1603, 1606, 32, 1581, 1610, 1575,
    1578, 1603, 32, 1605, 1607, 1605, 1577, 32, 1608, 1602, 1610, 1605,
    1577, 46, 10, 10, 1610, 1585, 1580, 1609, 32, 1575, 1604, 1578, 1608,
    1575, 1589, 1604, 32, 1601, 1608, 1585, 1575, 1611, 32, 1605, 1593, 58,
    10, 128222, 32, 1575, 1604, 1591, 1608, 1575, 1585, 1574, 58, 32, 57,
    57, 57, 10, 127973, 32, 1605, 1587, 1578, 1588, 1601, 1609, 32, 1575,
    1604, 1587, 1604, 1591, 1575, 1606, 32, 1602, 1575, 1576, 1608, 1587,
    58, 32, 50, 52, 50, 49, 49, 52, 49, 49, 10, 127384, 32, 1571, 1608, 32,
    1578, 1608, 1580, 1607, 32, 1604, 1571, 1602, 1585, 1576, 32, 1602,
    1587, 1605, 32, 1591, 1608, 1575, 1585, 1574, 10, 10, 1604, 1587, 1578,
    32, 1608, 1581, 1583, 1603, 46, 32, 1607, 1606, 1575, 1603, 32, 1571,
    1588, 1582, 1575, 1589, 32, 1610, 1585, 1610, 1583, 1608, 1606, 32,
    1605, 1587, 1575, 1593, 1583, 1578, 1603, 46, 10, 32, 32, 32, 32, 32,
    32, 32, 32, 32, 32, 32, 32>>

\* The text it returns when "violence" is listed and "suicide" is not (lines 553-562).
\* It begins: أرى أنك تشعر بغضب شديد. دعنا نجد طرق آمنة للتعامل مع هذه المشاعر.
CriticalViolenceTemplate ==
  <<10, 9888, 65039, 32, 1571, 1585, 1609, 32, 1571, 1606, 1603, 32, 1578,
    1588, 1593, 1585, 32, 1576, 1594, 1590, 1576, 32, 1588, 1583, 1610,
    1583, 46, 32, 1583, 1593, 1606, 1575, 32, 1606, 1580, 1583, 32, 1591,
    1585, 1602, 32, 1570, 1605, 1606, 1577, 32, 1604, 1604, 1578, 1593,
    1575, 1605, 1604, 32, 1605, 1593, 32, 1607, 1584, 1607, 32, 1575, 1604,
    1605, 1588, 1575, 1593, 1585, 46, 10, 10, 1610, 1585, 1580, 1609, 58,
    10, 128222, 32, 1575, 1604, 1575, 1578, 1589, 1575, 1604, 32, 1576,
    1600, 32, 57, 57, 57, 32, 1573, 1584, 1575, 32, 1603, 1606, 1578, 32,
    1601, 1610, 32, 1582, 1591, 1585, 10, 128694, 8205, 9794, 65039, 32,
    1571, 1582, 1584, 32, 1605, 1587, 1575, 1581, 1577, 32, 1570, 1605,
    1606, 1577, 32, 1605, 1606, 32, 1575, 1604, 1605, 1608, 1602, 1601, 10,
    129496, 8205, 9794, 65039, 32, 1575, 1604, 1578, 1606, 1601, 1587, 32,
    1576, 1593, 1605, 1602, 32, 1608, 1607, 1583, 1608, 1569, 10, 10, 1571,
    1578, 1601, 1607, 1605, 32, 1594, 1590, 1576, 1603, 1548, 32, 1604,
    1603, 1606, 32, 1587, 1604, 1575, 1605, 1578, 1603, 32, 1608, 1587,
    1604, 1575, 1605, 1577, 32, 1575, 1604, 1570, 1582, 1585, 1610, 1606,
    32, 1571, 1607, 1605, 46, 10, 32, 32, 32, 32, 32, 32, 32, 32, 32, 32,
    32, 32>>

\* The text it returns otherwise (lines 564-572).
\* It begins: أشعر بقلق شديد عليك. يرجى طلب المساعدة المهنية فوراً.
CriticalGenericTemplate ==
  <<10, 127384, 32, 1571, 1588, 1593, 1585, 32, 1576, 1602, 1604, 1602, 32,
    1588, 1583, 1610, 1583, 32, 1593, 1604, 1610, 1603, 46, 32, 1610, 1585,
    1580, 1609, 32, 1591, 1604, 1576, 32, 1575, 1604, 1605, 1587, 1575,
    1593, 1583, 1577, 32, 1575, 1604, 1605, 1607, 1606, 1610, 1577, 32,
    1601, 1608, 1585, 1575, 1611, 46, 10, 10, 128222, 32, 1575, 1578, 1589,
    1604, 32, 1576, 1600, 32, 57, 57, 57, 32, 1571, 1608, 32, 1578, 1608,
    1580, 1607, 32, 1604, 1571, 1602, 1585, 1576, 32, 1605, 1587, 1578,
    1588, 1601, 1609, 10, 128104, 8205, 9877, 65039, 32, 1578, 1581, 1583,
    1579, 32, 1605, 1593, 32, 1591, 1576, 1610, 1576, 32, 1571, 1608, 32,
    1571, 1582, 1589, 1575, 1574, 1610, 32, 1606, 1601, 1587, 1610, 10,
    128104, 8205, 128105, 8205, 128103, 8205, 128102, 32, 1571, 1582, 1576,
    1585, 32, 1588, 1582, 1589, 32, 1578, 1579, 1602, 32, 1576, 1607, 32,
    1605, 1606, 32, 1593, 1575, 1574, 1604, 1578, 1603, 10, 10, 1608, 1590,
    1593, 1603, 32, 1610, 1605, 1603, 1606, 32, 1578, 1581, 1587, 1610,
    1606, 1607, 32, 1576, 1575, 1604, 1605, 1587, 1575, 1593, 1583, 1577,
    32, 1575, 1604, 1605, 1606, 1575, 1587, 1576, 1577, 46, 10, 32, 32, 32,
    32, 32, 32, 32, 32, 32, 32, 32, 32>>

\* The text _generate_high_response returns (lines 576-585).
\* It begins: أقدر ثقتك في مشاركة مشاعرك. ما تمر به صعب، لكن هناك حلول ومساعدة.
HighTemplate ==
  <<10, 128155, 32, 1571, 1602, 1583, 1585, 32, 1579, 1602, 1578, 1603, 32,
    1601, 1610, 32, 1605, 1588, 1575, 1585, 1603, 1577, 32, 1605, 1588,
    1575, 1593, 1585, 1603, 46, 32, 1605, 1575, 32, 1578, 1605, 1585, 32,
    1576, 1607, 32, 1589, 1593, 1576, 1548, 32, 1604, 1603, 1606, 32, 1607,
    1606, 1575, 1603, 32, 1581, 1604, 1608, 1604, 32, 1608, 1605, 1587,
    1575, 1593, 1583, 1577, 46, 10, 10, 128279, 32, 1605, 1608, 1575, 1585,
    1583, 32, 1575, 1604, 1605, 1587, 1575, 1593, 1583, 1577, 58, 10,
    128222, 32, 1582, 1591, 32, 1575, 1604, 1605, 1587, 1575, 1593, 1583,
    1577, 32, 1575, 1604, 1606, 1601, 1587, 1610, 1577, 32, 40, 1602, 1585,
    1610, 1576, 1575, 1611, 41, 10, 127973, 32, 1605, 1585, 1575, 1603,
    1586, 32, 1575, 1604, 1589, 1581, 1577, 32, 1575, 1604, 1606, 1601,
    1587, 1610, 1577, 10, 128104, 8205, 128105, 8205, 128103, 8205, 128102,
    32, 1575, 1604, 1578, 1581, 1583, 1579, 32, 1605, 1593, 32, 1588, 1582,
    1589, 32, 1578, 1579, 1602, 32, 1576, 1607, 10, 10, 129330, 32, 1578,
    1584, 1603, 1585, 32, 1571, 1606, 32, 1575, 1604, 1604, 1607, 32, 1605,
    1593, 1603, 32, 1601, 1610, 32, 1603, 1604, 32, 1604, 1581, 1592, 1577,
    1548, 32, 1608, 1575, 1604, 1601, 1585, 1580, 32, 1602, 1575, 1583,
    1605, 32, 1576, 1573, 1584, 1606, 32, 1575, 1604, 1604, 1607, 46, 10,
    32, 32, 32, 32, 32, 32, 32, 32>>

\* The text _generate_medium_response returns (lines 589-599).
\* It begins: أفهم أنك تواجه تحديات. هذا طبيعي في الحياة، والمهم كيف نتعامل معها.
MediumTemplate ==
  <<10, 128153, 32, 1571, 1601, 1607, 1605, 32, 1571, 1606, 1603, 32, 1578,
    1608, 1575, 1580, 1607, 32, 1578, 1581, 1583, 1610, 1575, 1578, 46, 32,
    1607, 1584, 1575, 32, 1591, 1576, 1610, 1593, 1610, 32, 1601, 1610, 32,
    1575, 1604, 1581, 1610, 1575, 1577, 1548, 32, 1608, 1575, 1604, 1605,
    1607, 1605, 32, 1603, 1610, 1601, 32, 1606, 1578, 1593, 1575, 1605,
    1604, 32, 1605, 1593, 1607, 1575, 46, 10, 10, 128161, 32, 1575, 1602,
    1578, 1585, 1575, 1581, 1575, 1578, 32, 1605, 1601, 1610, 1583, 1577,
    58, 10, 128483, 65039, 32, 1575, 1604, 1578, 1581, 1583, 1579, 32,
    1605, 1593, 32, 1588, 1582, 1589, 32, 1578, 1579, 1602, 32, 1576, 1607,
    10, 129330, 32, 1575, 1604, 1583, 1593, 1575, 1569, 32, 1608, 1575,
    1604, 1584, 1603, 1585, 32, 1604, 1604, 1585, 1575, 1581, 1577, 32,
    1575, 1604, 1606, 1601, 1587, 1610, 1577, 10, 128218, 32, 1602, 1585,
    1575, 1569, 1577, 32, 1575, 1604, 1602, 1585, 1570, 1606, 32, 1604,
    1604, 1587, 1603, 1610, 1606, 1577, 10, 128694, 8205, 9794, 65039, 32,
    1575, 1604, 1605, 1588, 1610, 32, 1608, 1575, 1604, 1585, 1610, 1575,
    1590, 1577, 32, 1575, 1604, 1582, 1601, 1610, 1601, 1577, 10, 10, 1571,
    1606, 1575, 32, 1607, 1606, 1575, 32, 1604, 1583, 1593, 1605, 1603, 32,
    1601, 1610, 32, 1607, 1584, 1607, 32, 1575, 1604, 1585, 1581, 1604,
    1577, 46, 10, 32, 32, 32, 32, 32, 32, 32, 32>>

\* The text _generate_low_response returns (lines 603-607).
\* It begins: أسعدني أنك تشاركني أفكارك. التعبير عن المشاعر خطوة إيجابية.
LowTemplate ==
  <<10, 128154, 32, 1571, 1587, 1593, 1583, 1606, 1610, 32, 1571, 1606,
    1603, 32, 1578, 1588, 1575, 1585, 1603, 1606, 1610, 32, 1571, 1601,
    1603, 1575, 1585, 1603, 46, 32, 1575, 1604, 1578, 1593, 1576, 1610,
    1585, 32, 1593, 1606, 32, 1575, 1604, 1605, 1588, 1575, 1593, 1585, 32,
    1582, 1591, 1608, 1577, 32, 1573, 1610, 1580, 1575, 1576, 1610, 1577,
    46, 10, 10, 1583, 1593, 1606, 1575, 32, 1606, 1578, 1581, 1583, 1579,
    32, 1571, 1603, 1579, 1585, 32, 1593, 1605, 1575, 32, 1578, 1588, 1593,
    1585, 32, 1576, 1607, 32, 1608, 1603, 1610, 1601, 32, 1610, 1605, 1603,
    1606, 1606, 1610, 32, 1605, 1587, 1575, 1593, 1583, 1578, 1603, 46, 10,
    32, 32, 32, 32, 32, 32, 32, 32>>

\* Mutant of _generate_critical_response: "violence" is tested before "suicide".
_generate_critical_response_violence_first(crisis_types) ==
  IF InList("violence", crisis_types) THEN CriticalViolenceTemplate
  ELSE IF InList("suicide", crisis_types) THEN CriticalSuicideTemplate
  ELSE CriticalGenericTemplate

\* _generate_critical_response(crisis_types)
_generate_critical_response(crisis_types) ==
  IF InList("suicide", crisis_types) THEN CriticalSuicideTemplate
  ELSE IF InList("violence", crisis_types) THEN CriticalViolenceTemplate
  ELSE CriticalGenericTemplate

\* _generate_high_response(crisis_types)
_generate_high_response(crisis_types) == HighTemplate

\* _generate_medium_response(crisis_types)
_generate_medium_response(crisis_types) == MediumTemplate

\* _generate_low_response(crisis_types)
_generate_low_response(crisis_types) == LowTemplate

\* generate_crisis_response(assessment): the level is compared with the
\* level strings, the last branch takes every other value.
generate_crisis_response(assessment) ==
  LET crisis_level == assessment["crisis_level"]
      detected_types == assessment["detected_types"]
  IN IF crisis_level = "critical" THEN _generate_critical_response(detected_types)
     ELSE IF crisis_level = "high" THEN _generate_high_response(detected_types)
     ELSE IF crisis_level = "medium" THEN _generate_medium_response(detected_types)
     ELSE _generate_low_response(detected_types)

(***************************************************************************)
(* State.                                                                  *)
(***************************************************************************)
VARIABLES
  session_history,  \* self.session_history: session id -> list of records
  clock,            \* the calls of assess_crisis_level so far; datetime.now()
  call,             \* the last call: its operation and arguments
  ret,              \* what the last call returned
  pc,               \* "idle", "called" (not yet returned) or "returned"
  patterns,         \* self.crisis_patterns: the pattern table the engine holds
  threads,          \* the frames of the calls running concurrently
  heap,             \* the list objects those calls share, by address
  log               \* history variable: the calls made so far, with their results

vars == <<session_history, clock, call, ret, pc, patterns, threads, heap, log>>

\* The lines of assess_crisis_level up to _calculate_combined_score: the
\* fused score of text.
CombinedScore(text) ==
  LET text_lower == lower(text)
  IN _calculate_combined_score(_check_crisis_keywords(text_lower),
                               _check_crisis_patterns(text_lower),
                               _check_omani_expressions(text_lower))

\* CombinedScore of every text of the model, as a table.
CombinedScoreOf == [t \in Texts \cup SessionTexts \cup LongTexts |-> CombinedScore(t)]

\* CrisisDetectionSystem(): the state after __init__.
Init ==
  /\ session_history = EmptyDict
  /\ clock = 0
  /\ call = [op |-> "__init__"]
  /\ ret = None
  /\ pc = "idle"
  /\ patterns = crisis_patterns
  /\ threads = <<>>
  /\ heap = <<>>
  /\ log = <<>>

\* Mutant of Truthy: the guard is dropped, every session_id is tracked.
Truthy_always(session_id) == TRUE

\* Mutant of Truthy: only the empty string is falsy, None is taken as an id.
Truthy_none_is_id(session_id) == session_id # ""

\* Mutant of Truthy: only None is falsy, the empty string is taken as an id.
Truthy_empty_is_id(session_id) == session_id # None

\* `if session_id:` -- None and the empty string are falsy.
Truthy(session_id) == session_id # None /\ session_id # ""

\* Mutant of Assessment: an escalating session requires escalation as well.
Assessment_risk_escalates(crisis_level, combined_score, session_pattern_risk) ==
  [crisis_level |-> crisis_level,
   crisis_score |-> combined_score.total_score,
   detected_types |-> combined_score.types,
   requires_escalation |-> \/ crisis_level \in {CrisisLevel.HIGH, CrisisLevel.CRITICAL}
                           \/ session_pattern_risk >= 500,
   requires_immediate_intervention |-> crisis_level = CrisisLevel.CRITICAL,
   session_pattern_risk |-> session_pattern_risk,
   emergency_resources |-> _get_relevant_resources(combined_score.types)]

\* Mutant of Assessment: only a critical level requires escalation.
Assessment_critical_only(crisis_level, combined_score, session_pattern_risk) ==
  [crisis_level |-> crisis_level,
   crisis_score |-> combined_score.total_score,
   detected_types |-> combined_score.types,
   requires_escalation |-> crisis_level = CrisisLevel.CRITICAL,
   requires_immediate_intervention |-> crisis_level = CrisisLevel.CRITICAL,
   session_pattern_risk |-> session_pattern_risk,
   emergency_resources |-> _get_relevant_resources(combined_score.types)]

\* The assessment dict assess_crisis_level builds and returns.
Assessment(crisis_level, combined_score, session_pattern_risk) ==
  [crisis_level |-> crisis_level,
   crisis_score |-> combined_score.total_score,
   detected_types |-> combined_score.types,
   requires_escalation |-> crisis_level \in {CrisisLevel.HIGH, CrisisLevel.CRITICAL},
   requires_immediate_intervention |-> crisis_level = CrisisLevel.CRITICAL,
   session_pattern_risk |-> session_pattern_risk,
   emergency_resources |-> _get_relevant_resources(combined_score.types)]

\* assess_crisis_level(text, session_id), start to return.
assess_crisis_level(text, session_id) ==
  LET combined_score == CombinedScoreOf[text]
      crisis_level == _determine_crisis_level(combined_score)
      analysis == _analyze_session_patterns(session_history, session_id,
                                            combined_score, clock + 1)
      session_pattern_risk == IF Truthy(session_id) THEN analysis.risk ELSE 0
  IN /\ session_history' = IF Truthy(session_id) THEN analysis.session_history
                            ELSE session_history
     /\ clock' = clock + 1
     /\ call' = [op |-> "assess_crisis_level", text |-> text, session_id |-> session_id]
     /\ ret' = Assessment(crisis_level, combined_score, session_pattern_risk)
     /\ pc' = "returned"
     /\ UNCHANGED <<patterns, threads, heap>>

\* Any call of the engine by the conversation pipeline.
Next ==
  \E text \in Texts, session_id \in SessionIds :
     clock < MaxTurns /\ assess_crisis_level(text, session_id) /\ UNCHANGED log

Spec == Init /\ [][Next]_vars

\* Turns of two sessions, interleaved call by call.
NextSession ==
  \E text \in SessionTexts, session_id \in {"s1", "s2"} :
     clock < MaxSessionTurns /\ assess_crisis_level(text, session_id) /\ UNCHANGED log

SpecSession == Init /\ [][NextSession]_vars

\* Many turns of one session.
NextLong ==
  \E text \in LongTexts :
     clock < MaxLongTurns /\ assess_crisis_level(text, "s1") /\ UNCHANGED log

SpecLong == Init /\ [][NextLong]_vars

\* The same texts again and again, without a session id and in two sessions;
\* log keeps every call with the assessment it returned.
NextRepeat ==
  \E text \in RepeatTexts, session_id \in {None, "s1", "s2"} :
     /\ clock < MaxRepeatTurns
     /\ assess_crisis_level(text, session_id)
     /\ log' = Append(log, [call |-> call', ret |-> ret'])

SpecRepeat == Init /\ [][NextRepeat]_vars

(***************************************************************************)
(* The level classifier on its own: every score of the grid with every     *)
(* set of detected types.                                                  *)
(***************************************************************************)
InitLevel ==
  /\ session_history = EmptyDict
  /\ clock = 0
  /\ call \in {[op |-> "_determine_crisis_level",
                combined_score |-> [total_score |-> 5 * u, types |-> ListOfSet(s)]] :
                 u \in 0..MaxScoreUnits, s \in SUBSET CrisisTypeValues}
  /\ ret = None
  /\ pc = "called"
  /\ patterns = crisis_patterns
  /\ threads = <<>>
  /\ heap = <<>>
  /\ log = <<>>

determine_crisis_level ==
  /\ pc = "called"
  /\ call.op = "_determine_crisis_level"
  /\ ret' = _determine_crisis_level(call.combined_score)
  /\ pc' = "returned"
  /\ UNCHANGED <<session_history, clock, call, patterns, threads, heap, log>>

SpecLevel == InitLevel /\ [][determine_crisis_level]_vars

(***************************************************************************)
(* The resource resolver on its own: every list of at most MaxTypesLen     *)
(* type strings, one of them outside the CrisisType set.                   *)
(***************************************************************************)
TypeStrings == CrisisTypeValues \cup {"unknown_type"}

InitResources ==
  /\ session_history = EmptyDict
  /\ clock = 0
  /\ call \in {[op |-> "_get_relevant_resources", crisis_types |-> l] :
                 l \in UNION {[1..n -> TypeStrings] : n \in 0..MaxTypesLen}}
  /\ ret = None
  /\ pc = "called"
  /\ patterns = crisis_patterns
  /\ threads = <<>>
  /\ heap = <<>>
  /\ log = <<>>

get_relevant_resources ==
  /\ pc = "called"
  /\ call.op = "_get_relevant_resources"
  /\ ret' = _get_relevant_resources(call.crisis_types)
  /\ pc' = "returned"
  /\ UNCHANGED <<session_history, clock, call, patterns, threads, heap, log>>

SpecResources == InitResources /\ [][get_relevant_resources]_vars

(***************************************************************************)
(* The response composer and the resource resolver on the same lists of    *)
(* type strings, the composer with every level.                            *)
(***************************************************************************)
TypeLists == UNION {[1..n -> TypeStrings] : n \in 0..MaxTypesLen}

InitResponse ==
  /\ session_history = EmptyDict
  /\ clock = 0
  /\ call \in {[op |-> "generate_crisis_response",
                assessment |-> [crisis_level |-> level, detected_types |-> l]] :
                 level \in CrisisLevelValues, l \in TypeLists}
             \cup {[op |-> "_get_relevant_resources", crisis_types |-> l] :
                     l \in TypeLists}
  /\ ret = None
  /\ pc = "called"
  /\ patterns = crisis_patterns
  /\ threads = <<>>
  /\ heap = <<>>
  /\ log = <<>>

compose_crisis_response ==
  /\ pc = "called"
  /\ call.op = "generate_crisis_response"
  /\ ret' = generate_crisis_response(call.assessment)
  /\ pc' = "returned"
  /\ UNCHANGED <<session_history, clock, call, patterns, threads, heap, log>>

NextResponse == compose_crisis_response \/ get_relevant_resources

SpecResponse == InitResponse /\ [][NextResponse]_vars

(***************************************************************************)
(* Concurrent turns of one session.  The engine holds no lock, so calls    *)
(* running in several threads interleave; the model interleaves them       *)
(* statement by statement from the first statement that touches            *)
(* self.session_history (everything before it is local to the call).       *)
(* Lists are objects: session_history maps a session id to the address of  *)
(* its list in heap, list.append changes the object in place, the slice of *)
(* line 472 makes a new object, and the local `history` of line 474 is an  *)
(* address, so that it shows what other calls append to that object.       *)
(***************************************************************************)
\* The turns the session has had, one after the other, before the
\* concurrent ones arrive.
PriorTurns == <<TextFailure, TextNoLife>>

\* The texts of the concurrent turns: total scores 0.3, 1.0 and 1.5.
ConcurrentTexts == {TextFailure, TextNoLife, TextFive}

\* self.session_history after the first n turns of PriorTurns for "s1".
RECURSIVE WarmUp(_)
WarmUp(n) ==
  IF n = 0 THEN EmptyDict
  ELSE _analyze_session_patterns(WarmUp(n - 1), "s1",
                                 CombinedScoreOf[PriorTurns[n]], n).session_history

\* The frame of a call of assess_crisis_level(text, session_id) that has
\* reached line 261 with a session id: its position and its locals.
Frame(text, session_id) ==
  [pc |-> "L461", text |-> text, session_id |-> session_id,
   history |-> 0, recent_scores |-> <<>>, crisis_count |-> 0,
   session_pattern_risk |-> 0, ret |-> None]

InitConcurrent ==
  /\ \E n \in {0, Len(PriorTurns)} :
        /\ clock = n
        /\ session_history = [id \in DOMAIN WarmUp(n) |-> 1]
        /\ heap = IF n = 0 THEN <<>> ELSE <<WarmUp(n)["s1"]>>
  /\ threads \in [1..NumThreads -> {Frame(text, "s1") : text \in ConcurrentTexts}]
  /\ call = [op |-> "__init__"]
  /\ ret = None
  /\ pc = "idle"
  /\ patterns = crisis_patterns
  /\ log = <<>>

\* Thread t moves to label with the locals of its frame changed as in new;
\* nothing outside the frames, the session map and the lists is touched.
Goto(t, label, new) ==
  /\ threads' = [threads EXCEPT ![t] = [f \in DOMAIN @ |->
                   IF f = "pc" THEN label
                   ELSE IF f \in DOMAIN new THEN new[f] ELSE @[f]]]
  /\ UNCHANGED <<call, ret, pc, patterns, log>>

\* 461: if session_id not in self.session_history:
L461(t) ==
  /\ threads[t].pc = "L461"
  /\ Goto(t, IF threads[t].session_id \notin DOMAIN session_history
             THEN "L462" ELSE "L465", EmptyDict)
  /\ UNCHANGED <<session_history, heap, clock>>

\* 462: self.session_history[session_id] = []
L462(t) ==
  /\ threads[t].pc = "L462"
  /\ heap' = Append(heap, <<>>)
  /\ session_history' = Update(session_history, threads[t].session_id :> Len(heap) + 1)
  /\ Goto(t, "L465", EmptyDict)
  /\ UNCHANGED clock

\* 465-469: self.session_history[session_id].append({...})
L465(t) ==
  /\ threads[t].pc = "L465"
  /\ clock' = clock + 1
  /\ heap' = [heap EXCEPT ![session_history[threads[t].session_id]] =
                Append(@, [timestamp |-> clock + 1,
                           score |-> CombinedScoreOf[threads[t].text].total_score,
                           types |-> CombinedScoreOf[threads[t].text].types])]
  /\ Goto(t, "L472", EmptyDict)
  /\ UNCHANGED session_history

\* 472: self.session_history[session_id] = self.session_history[session_id][-10:]
L472(t) ==
  /\ threads[t].pc = "L472"
  /\ heap' = Append(heap, LastN(heap[session_history[threads[t].session_id]], 10))
  /\ session_history' = [session_history EXCEPT ![threads[t].session_id] = Len(heap) + 1]
  /\ Goto(t, "L474", EmptyDict)
  /\ UNCHANGED clock

\* 474: history = self.session_history[session_id]
L474(t) ==
  /\ threads[t].pc = "L474"
  /\ Goto(t, "L477", "history" :> session_history[threads[t].session_id])
  /\ UNCHANGED <<session_history, heap, clock>>

\* 477: if len(history) >= 3:
L477(t) ==
  /\ threads[t].pc = "L477"
  /\ Goto(t, IF Len(heap[threads[t].history]) >= 3 THEN "L478" ELSE "L483", EmptyDict)
  /\ UNCHANGED <<session_history, heap, clock>>

\* 478: recent_scores = [entry["score"] for entry in history[-3:]]
L478(t) ==
  /\ threads[t].pc = "L478"
  /\ LET recent == LastN(heap[threads[t].history], 3)
     IN Goto(t, "L479", "recent_scores" :> [i \in DOMAIN recent |-> recent[i].score])
  /\ UNCHANGED <<session_history, heap, clock>>

\* 479-480: if all(recent_scores[i] < recent_scores[i+1] ...): return 0.5
L479(t) ==
  /\ threads[t].pc = "L479"
  /\ LET recent_scores == threads[t].recent_scores
     IN IF \A i \in 1..(Len(recent_scores) - 1) : recent_scores[i] < recent_scores[i + 1]
        THEN Goto(t, "L265", "session_pattern_risk" :> 500)
        ELSE Goto(t, "L483", EmptyDict)
  /\ UNCHANGED <<session_history, heap, clock>>

\* 483: crisis_count = sum(1 for entry in history if entry["score"] > 1.0)
L483(t) ==
  /\ threads[t].pc = "L483"
  /\ LET history == heap[threads[t].history]
     IN Goto(t, "L484", "crisis_count" :>
                Cardinality({i \in DOMAIN history : history[i].score > 1000}))
  /\ UNCHANGED <<session_history, heap, clock>>

\* 484-487: if crisis_count >= 2: return 0.3; return 0.0
L484(t) ==
  /\ threads[t].pc = "L484"
  /\ Goto(t, "L265", "session_pattern_risk" :>
                        IF threads[t].crisis_count >= 2 THEN 300 ELSE 0)
  /\ UNCHANGED <<session_history, heap, clock>>

\* 265-279: the assessment is built and returned.
L265(t) ==
  /\ threads[t].pc = "L265"
  /\ LET combined_score == CombinedScoreOf[threads[t].text]
     IN Goto(t, "done", "ret" :> Assessment(_determine_crisis_level(combined_score),
                                           combined_score,
                                           threads[t].session_pattern_risk))
  /\ UNCHANGED <<session_history, heap, clock>>

\* One statement of one of the running calls.
NextConcurrent ==
  \E t \in 1..NumThreads :
     \/ L461(t) \/ L462(t) \/ L465(t) \/ L472(t) \/ L474(t) \/ L477(t)
     \/ L478(t) \/ L479(t) \/ L483(t) \/ L484(t) \/ L265(t)

SpecConcurrent == InitConcurrent /\ [][NextConcurrent]_vars

(***************************************************************************)
(* Construction with a pattern table that holds a malformed regular        *)
(* expression.  __init__ stores the table as _build_crisis_patterns        *)
(* returns it; a regex is first compiled by re.findall in                  *)
(* _check_crisis_patterns, which raises re.error for a malformed one       *)
(* whatever the text.                                                      *)
(***************************************************************************)
\* A regex the compiler rejects, its parenthesis left open: (أريد|بدي
MalformedPattern == <<40, 1571, 1585, 1610, 1583, 124, 1576, 1583, 1610>>

\* The table of the source, and the table with one of its regexes replaced
\* by the malformed one.  A malformed regex has no parse: its entry keeps the
\* source text in place of the two alternative lists.
PatternTables ==
  {crisis_patterns}
  \cup {[crisis_patterns EXCEPT ![i] = [source |-> MalformedPattern,
                                        type |-> @.type, weight |-> @.weight]] :
          i \in DOMAIN crisis_patterns}

\* re.compile accepts the regex of a table entry.
Compiles(pattern) == "source" \notin DOMAIN pattern

\* Before CrisisDetectionSystem() runs: no engine, no table held.
InitMalformed ==
  /\ session_history = EmptyDict
  /\ clock = 0
  /\ call \in {[op |-> "__init__", crisis_patterns |-> table] : table \in PatternTables}
  /\ ret = None
  /\ pc = "called"
  /\ patterns = <<>>
  /\ threads = <<>>
  /\ heap = <<>>
  /\ log = <<>>

\* __init__: the tables are built and stored, session_history is set to {};
\* no statement of it compiles a regex or can raise on the table's content.
construct ==
  /\ pc = "called"
  /\ call.op = "__init__"
  /\ patterns' = call.crisis_patterns
  /\ session_history' = EmptyDict
  /\ ret' = None
  /\ pc' = "idle"
  /\ UNCHANGED <<clock, call, threads, heap, log>>

\* assess_crisis_level on the engine as constructed: with a malformed regex
\* in the table re.findall raises re.error at line 322, before the session
\* map is touched, and nothing catches it.
assess_on_table(text, session_id) ==
  /\ pc \in {"idle", "returned", "raised"}
  /\ IF \A i \in DOMAIN patterns : Compiles(patterns[i])
     THEN patterns = crisis_patterns /\ assess_crisis_level(text, session_id)
     ELSE /\ clock' = clock + 1
          /\ call' = [op |-> "assess_crisis_level", text |-> text,
                      session_id |-> session_id]
          /\ ret' = "re.error"
          /\ pc' = "raised"
          /\ UNCHANGED <<session_history, patterns, threads, heap>>
  /\ UNCHANGED log

NextMalformed ==
  \/ construct
  \/ \E text \in Texts, session_id \in SessionIds :
        clock < MaxTurns /\ assess_on_table(text, session_id)

SpecMalformed == InitMalformed /\ [][NextMalformed]_vars

(***************************************************************************)
(* The fusion on its own: every triple of channel results over two crisis  *)
(* types.  A channel lists a type only with a positive score: the lexicon  *)
(* a count of keywords, the pattern channel a count of matches times a     *)
(* weight of the table, the dialect channel a count of idioms times 1.2.   *)
(***************************************************************************)
\* The crisis types of the channel results of SpecFusion.
FusionTypes == {"suicide", "violence"}

\* The results a channel can report when one match scores one of units.
ChannelResults(units) ==
  {[types |-> ListOfSet(DOMAIN scores), scores |-> scores] :
     scores \in UNION {[reported -> {unit * n : unit \in units, n \in 1..MaxMatches}] :
                         reported \in SUBSET FusionTypes}}

InitFusion ==
  /\ session_history = EmptyDict
  /\ clock = 0
  /\ call \in {[op |-> "_calculate_combined_score", keyword_results |-> k,
                pattern_results |-> p, dialect_results |-> d] :
                 k \in ChannelResults({1000}),
                 p \in ChannelResults({crisis_patterns[i].weight : i \in DOMAIN crisis_patterns}),
                 d \in ChannelResults({DialectWeight})}
  /\ ret = None
  /\ pc = "called"
  /\ patterns = crisis_patterns
  /\ threads = <<>>
  /\ heap = <<>>
  /\ log = <<>>

calculate_combined_score ==
  /\ pc = "called"
  /\ call.op = "_calculate_combined_score"
  /\ ret' = _calculate_combined_score(call.keyword_results, call.pattern_results,
                                      call.dialect_results)
  /\ pc' = "returned"
  /\ UNCHANGED <<session_history, clock, call, patterns, threads, heap, log>>

SpecFusion == InitFusion /\ [][calculate_combined_score]_vars

(***************************************************************************)
(* The lexicon matcher on its own: every text of at most MaxWords words    *)
(* of a small vocabulary, a blank between two words.                       *)
(***************************************************************************)
\* The vocabulary: two severe_depression keywords, a phrase that holds two
\* suicide keywords and a violence keyword, and a word that is no keyword.
LexiconWords ==
  << <<1601, 1575, 1588, 1604>>,                                    \* فاشل
     <<1605, 1606, 1576, 1608, 1584>>,                              \* منبوذ
     <<1587, 1571, 1602, 1578, 1604, 32, 1606, 1601, 1587, 1610>>,  \* سأقتل نفسي
     <<1605, 1585, 1581, 1576, 1575>> >>                            \* مرحبا

\* The words joined by single blanks.
RECURSIVE JoinWords(_)
JoinWords(words) ==
  IF words = <<>> THEN <<>>
  ELSE IF Len(words) = 1 THEN words[1]
  ELSE words[1] \o <<32>> \o JoinWords(Tail(words))

LexiconTexts ==
  {JoinWords(words) : words \in UNION {[1..n -> Range(LexiconWords)] : n \in 0..MaxWords}}

InitLexicon ==
  /\ session_history = EmptyDict
  /\ clock = 0
  /\ call \in {[op |-> "_check_crisis_keywords", text |-> text] : text \in LexiconTexts}
  /\ ret = None
  /\ pc = "called"
  /\ patterns = crisis_patterns
  /\ threads = <<>>
  /\ heap = <<>>
  /\ log = <<>>

check_crisis_keywords ==
  /\ pc = "called"
  /\ call.op = "_check_crisis_keywords"
  /\ ret' = _check_crisis_keywords(call.text)
  /\ pc' = "returned"
  /\ UNCHANGED <<session_history, clock, call, patterns, threads, heap, log>>

SpecLexicon == InitLexicon /\ [][check_crisis_keywords]_vars

(***************************************************************************)
(* A session that calms down: at most MaxPriorTurns turns of total score   *)
(* 1.5, then turns of total score 0, 0.3 and 0.48 until the ten most       *)
(* recent turns of the session are all of that kind.                       *)
(***************************************************************************)
\* The texts of the calm turns: total scores 0, 0.3 and 0.48.
CalmTexts == {TextEmpty, TextFailure, TextBrokenHeart}

\* The history of session "s1", empty before its first turn.
HistoryOfS1 == IF "s1" \in DOMAIN session_history THEN session_history["s1"] ELSE <<>>

\* assess_crisis_level(TextFive, "s1") as one of the opening turns.
crisis_turn ==
  /\ clock < MaxPriorTurns
  /\ \A i \in DOMAIN HistoryOfS1 : HistoryOfS1[i].score > 1000
  /\ assess_crisis_level(TextFive, "s1")
  /\ UNCHANGED log

\* assess_crisis_level(text, "s1") with a calm text, as long as the ten most
\* recent turns are not all calm.
calm_turn ==
  \E text \in CalmTexts :
     /\ clock < MaxPriorTurns + 10
     /\ \/ Len(HistoryOfS1) < 10
        \/ \E i \in DOMAIN LastN(HistoryOfS1, 10) : LastN(HistoryOfS1, 10)[i].score > 1000
     /\ assess_crisis_level(text, "s1")
     /\ UNCHANGED log

NextCalm == crisis_turn \/ calm_turn

SpecCalm == Init /\ [][NextCalm]_vars

(***************************************************************************)
(* Properties.                                                             *)
(***************************************************************************)
\* The last call was assess_crisis_level and has returned.
Assessed == pc = "returned" /\ call.op = "assess_crisis_level"

\* The last call was assess_crisis_level for a session: its id and the
\* history the call left for it.
Tracked == Assessed /\ call.session_id # None /\ call.session_id # ""

HistoryOfCall == session_history[call.session_id]

\* The scores of history, in order.
ScoresOf(history) == [i \in DOMAIN history |-> history[i].score]

\* Rule i of the classifier's rule list holds of a score and a set of types.
RuleHolds(i, score, types) ==
  CASE i = 1 -> score >= 3000
    [] i = 2 -> "suicide" \in types /\ score >= 2000
    [] i = 3 -> "violence" \in types /\ score >= 2500
    [] i = 4 -> score >= 2000
    [] i = 5 -> ("suicide" \in types \/ "self_harm" \in types) /\ score >= 1000
    [] i = 6 -> score >= 1000
    [] i = 7 -> "severe_depression" \in types /\ score >= 500
    [] i = 8 -> TRUE

\* The level rule i gives.
RuleLevel == <<"critical", "critical", "critical", "high", "high", "medium", "medium", "low">>

\* The first rule of the list that holds.
FirstRule(score, types) ==
  CHOOSE i \in 1..8 : RuleHolds(i, score, types)
                      /\ \A j \in 1..(i - 1) : ~RuleHolds(j, score, types)

\* C1: for every total_score and every set of detected types,
\* _determine_crisis_level returns the level of the first rule that matches in
\* the ordered list (1) score >= 3.0 critical, (2) suicide and >= 2.0 critical,
\* (3) violence and >= 2.5 critical, (4) >= 2.0 high, (5) suicide or self_harm
\* and >= 1.0 high, (6) >= 1.0 medium, (7) severe_depression and >= 0.5 medium,
\* (8) low.
C1_LevelIsFirstMatchingRule ==
  (pc = "returned" /\ call.op = "_determine_crisis_level")
    => ret = RuleLevel[FirstRule(call.combined_score.total_score,
                                 Range(call.combined_score.types))]

\* C1's case: violence alone at 2.6 is classified critical by rule 3.
C1_Witness ==
  /\ pc = "returned" /\ call.op = "_determine_crisis_level"
  /\ call.combined_score.total_score = 2600
  /\ call.combined_score.types = <<"violence">>
  /\ ret = "critical"

\* C2: in every assessment assess_crisis_level returns, requires_escalation is
\* true exactly when the level is high or critical, and
\* requires_immediate_intervention exactly when it is critical.
C2_FlagsFollowLevel ==
  Assessed =>
    /\ ret.requires_escalation <=> (ret.crisis_level \in {"high", "critical"})
    /\ ret.requires_immediate_intervention <=> (ret.crisis_level = "critical")

\* C2's case: a high assessment, which escalates without immediate intervention.
C2_Witness ==
  /\ Assessed
  /\ ret.crisis_level = "high"
  /\ ret.requires_escalation
  /\ ~ret.requires_immediate_intervention

\* C3: after any sequence of assess_crisis_level calls, the stored history of
\* every session id has at most 10 records.
C3_HistoryAtMostTen ==
  \A sid \in DOMAIN session_history : Len(session_history[sid]) <= 10

\* C3's case: the eleventh turn of a session has returned and its history has
\* 10 records, the oldest of them the record of the second turn.
C3_Witness ==
  /\ Tracked
  /\ clock = 11
  /\ Len(HistoryOfCall) = 10
  /\ HistoryOfCall[1].timestamp = 2

\* The last three scores of history exist and are strictly increasing.
LastThreeIncrease(history) ==
  /\ Len(history) >= 3
  /\ history[Len(history) - 2].score < history[Len(history) - 1].score
  /\ history[Len(history) - 1].score < history[Len(history)].score

\* The records of history that score above 1.0.
AboveOne(history) == {i \in DOMAIN history : history[i].score > 1000}

\* C4: on a turn with a session id, session_pattern_risk is 0.5 if and only
\* if the history, with the turn's record appended, has at least 3 records
\* and the scores of its last three are strictly increasing.
C4_EscalatingIffStrictlyIncreasing ==
  Tracked => (ret.session_pattern_risk = 500 <=> LastThreeIncrease(HistoryOfCall))

\* C4's case: the third turn of a session, scores 0.3, 1.0, 1.2, returns 0.5.
C4_Witness ==
  /\ Tracked
  /\ ScoresOf(HistoryOfCall) = <<300, 1000, 1200>>
  /\ ret.session_pattern_risk = 500

\* C5: on a turn with a session id where the escalating rule does not fire,
\* session_pattern_risk is 0.3 if at least 2 records of the retained history
\* score strictly above 1.0, and 0.0 otherwise.
C5_PersistentWhenNotEscalating ==
  (Tracked /\ ~LastThreeIncrease(HistoryOfCall))
    => ret.session_pattern_risk =
         IF Cardinality(AboveOne(HistoryOfCall)) >= 2 THEN 300 ELSE 0

\* C5's case: turns scoring 1.2, 0.3, 1.5 give 0.3 on the third turn.
C5_Witness ==
  /\ Tracked
  /\ ScoresOf(HistoryOfCall) = <<1200, 300, 1500>>
  /\ ret.session_pattern_risk = 300

\* C6: session_pattern_risk is one of 0.0, 0.3 and 0.5, and it is 0.5 when
\* the escalating condition and the persistent condition both hold.
C6_OneRuleFires ==
  Assessed =>
    /\ ret.session_pattern_risk \in {0, 300, 500}
    /\ (Tracked /\ LastThreeIncrease(HistoryOfCall)
          /\ Cardinality(AboveOne(HistoryOfCall)) >= 2)
         => ret.session_pattern_risk = 500

\* C6's case: scores 0.3, 1.2, 1.5 are strictly increasing and two of them
\* are above 1.0; the turn returns 0.5.
C6_Witness ==
  /\ Tracked
  /\ ScoresOf(HistoryOfCall) = <<300, 1200, 1500>>
  /\ ret.session_pattern_risk = 500

\* C7: a call of assess_crisis_level with no session id returns
\* session_pattern_risk 0 and leaves the session map unchanged, whatever the
\* text.
C7_NoSessionIdIsStateless ==
  [][(call'.op = "assess_crisis_level" /\ call'.session_id = None)
       => (ret'.session_pattern_risk = 0 /\ session_history' = session_history)]_vars

\* C7's case: after a critical turn of session s1, the same text without a
\* session id: the map still holds the one record of s1 and the risk is 0.
C7_Witness ==
  /\ Assessed
  /\ call.session_id = None
  /\ call.text = TextCritical
  /\ DOMAIN session_history = {"s1"}
  /\ ScoresOf(session_history["s1"]) = <<2825>>
  /\ ret.session_pattern_risk = 0

\* Python's str.isspace characters of the model: tab, line feed, vertical
\* tab, form feed, carriage return, blank.
WhitespaceOnly(text) == \A i \in DOMAIN text : text[i] \in {9, 10, 11, 12, 13, 32}

\* C8: for an empty or whitespace-only text, assess_crisis_level returns an
\* assessment with level low, score 0, no detected type, and neither flag set.
C8_EmptyTextIsLow ==
  (Assessed /\ WhitespaceOnly(call.text)) =>
    /\ ret.crisis_level = "low"
    /\ ret.crisis_score = 0
    /\ ret.detected_types = <<>>
    /\ ~ret.requires_escalation
    /\ ~ret.requires_immediate_intervention

\* C8's case: the white-space text has been assessed as low.
C8_Witness ==
  /\ Assessed
  /\ call.text = TextWhitespace
  /\ ret.crisis_level = "low"
  /\ ret.detected_types = <<>>

\* bundle holds every entry of group, with the group's value.
HoldsAll(bundle, group) ==
  \A name \in DOMAIN group : name \in DOMAIN bundle /\ bundle[name] = group[name]

\* The last call was _get_relevant_resources and has returned.
Resolved == pc = "returned" /\ call.op = "_get_relevant_resources"

\* C9: for every list of detected types, the bundle _get_relevant_resources
\* returns holds general_emergency, police, ambulance and fire with their
\* original values.
C9_GeneralEmergencyAlways ==
  Resolved => HoldsAll(ret, emergency_resources.emergency)

\* C9's case: violence and suicide are both detected, so every branch of the
\* resolver has added to the bundle; police is still 999 and the other three
\* emergency entries are present.
C9_Witness ==
  /\ Resolved
  /\ call.crisis_types = <<"violence", "suicide">>
  /\ ret["police"] = <<57, 57, 57>>
  /\ {"general_emergency", "ambulance", "fire", "royal_hospital"} \subseteq DOMAIN ret

\* C10: if suicide, self_harm or severe_depression is in the list, the bundle
\* holds every mental-health contact and every hospital contact.
C10_MentalHealthAndHospitals ==
  (Resolved /\ \E t \in {"suicide", "self_harm", "severe_depression"} :
                  InList(t, call.crisis_types))
    => /\ HoldsAll(ret, emergency_resources.mental_health)
       /\ HoldsAll(ret, emergency_resources.hospitals)

\* C10's case: severe_depression alone brings the hospitals and the hotline.
C10_Witness ==
  /\ Resolved
  /\ call.crisis_types = <<"severe_depression">>
  /\ "royal_hospital" \in DOMAIN ret
  /\ "mental_health_hotline" \in DOMAIN ret


\* The call of generate_crisis_response has returned.
Responded == pc = "returned" /\ call.op = "generate_crisis_response"

\* The template the level and the listed types select.
TemplateFor(level, types) ==
  CASE level = "critical" /\ "suicide" \in Range(types) -> CriticalSuicideTemplate
    [] level = "critical" /\ "suicide" \notin Range(types) /\ "violence" \in Range(types)
         -> CriticalViolenceTemplate
    [] level = "critical" /\ Range(types) \cap {"suicide", "violence"} = {}
         -> CriticalGenericTemplate
    [] level = "high" -> HighTemplate
    [] level = "medium" -> MediumTemplate
    [] level = "low" -> LowTemplate

\* C11: the response is the template of the level; at the critical level the
\* suicide template when "suicide" is listed (with or without "violence"),
\* else the violence template when "violence" is listed, else the generic
\* critical template; the high, medium and low templates are fixed texts,
\* and the six templates differ from one another.
C11_TemplateByLevelAndType ==
  /\ Cardinality({CriticalSuicideTemplate, CriticalViolenceTemplate,
                  CriticalGenericTemplate, HighTemplate, MediumTemplate,
                  LowTemplate}) = 6
  /\ Responded =>
       ret = TemplateFor(call.assessment.crisis_level, call.assessment.detected_types)

\* A critical assessment listing violence before suicide got the suicide text.
C11_Witness ==
  /\ Responded
  /\ call.assessment.crisis_level = "critical"
  /\ call.assessment.detected_types = <<"violence", "suicide">>
  /\ ret = CriticalSuicideTemplate


\* C12: two calls of assess_crisis_level with the same text and no session id
\* return identical assessments, whatever calls were made before and between
\* them.
C12_StatelessCallsRepeat ==
  \A i, j \in DOMAIN log :
     (/\ log[i].call.session_id = None
      /\ log[j].call.session_id = None
      /\ log[i].call.text = log[j].call.text)
     => log[i].ret = log[j].ret

\* The first and the fourth call assess the same text without a session id,
\* and two turns of session s1 lie between them.
C12_Witness ==
  /\ Len(log) = 4
  /\ log[1].call = [op |-> "assess_crisis_level", text |-> TextOutcast, session_id |-> None]
  /\ log[4].call = log[1].call
  /\ log[2].call.session_id = "s1"
  /\ log[3].call.session_id = "s1"
  /\ Len(session_history["s1"]) = 2
  /\ log[4].ret.crisis_level = CrisisLevel.MEDIUM

\* The fields of an assessment other than session_pattern_risk.
TextFields(assessment) ==
  [f \in {"crisis_level", "crisis_score", "detected_types", "requires_escalation",
          "requires_immediate_intervention", "emergency_resources"} |-> assessment[f]]

\* C13: two assessments of the same text agree on the level, the total score,
\* the detected types, both flags and the resources, whatever their session
\* ids, the histories they met and the session_pattern_risk they report.
C13_TextAloneDecides ==
  \A i, j \in DOMAIN log :
     log[i].call.text = log[j].call.text
     => TextFields(log[i].ret) = TextFields(log[j].ret)

\* The third turn of s1 reports risk 0.5 with a medium level and no
\* escalation; the same text then reports risk 0 in s2.
C13_Witness ==
  /\ Len(log) = 4
  /\ log[3].call.session_id = "s1"
  /\ log[3].ret.session_pattern_risk = 500
  /\ log[3].ret.crisis_level = CrisisLevel.MEDIUM
  /\ ~log[3].ret.requires_escalation
  /\ log[4].call.text = log[3].call.text
  /\ log[4].call.session_id = "s2"
  /\ log[4].ret.session_pattern_risk = 0


\* C14: the assessment of the first example scenario ("I want to die, I have
\* decided to end my life tonight") detects suicide, has a total score of at
\* least 2.0, is critical, requires immediate intervention, and its
\* resources hold the emergency and the hospital contacts.
C14_ScenarioOneIsCritical ==
  (Assessed /\ call.text = TextSuicidePlan) =>
     /\ InList("suicide", ret.detected_types)
     /\ ret.crisis_score >= 2000
     /\ ret.crisis_level = CrisisLevel.CRITICAL
     /\ ret.requires_immediate_intervention
     /\ HoldsAll(ret.emergency_resources, emergency_resources.emergency)
     /\ HoldsAll(ret.emergency_resources, emergency_resources.hospitals)


\* Every concurrent call has returned.
AllReturned == threads # <<>> /\ \A t \in DOMAIN threads : threads[t].pc = "done"

\* What the calls of the threads listed in order leave and return when they
\* run one after the other on the history of n prior turns: the final
\* history of "s1" and the risk each thread's call reports.
RECURSIVE SerialRun(_, _, _, _)
SerialRun(history_map, now, order, risks) ==
  IF order = <<>>
  THEN [history |-> history_map["s1"], risks |-> risks]
  ELSE LET t == Head(order)
           analysis == _analyze_session_patterns(history_map, threads[t].session_id,
                          CombinedScoreOf[threads[t].text], now + 1)
       IN SerialRun(analysis.session_history, now + 1, Tail(order),
                    Update(risks, t :> analysis.risk))

\* The orders in which the threads can run one after the other.
SerialOrders ==
  {order \in [DOMAIN threads -> DOMAIN threads] :
     \A t \in DOMAIN threads : \E i \in DOMAIN order : order[i] = t}

\* C15: when two turns of one session id run interleaved statement by
\* statement, no record is lost: the final history and the risks the calls
\* return are those of one of the orders in which the calls can run one
\* after the other.
C15_SameSessionTurnsSerialize ==
  AllReturned =>
    \E order \in SerialOrders :
       LET serial == SerialRun(WarmUp(clock - Len(threads)), clock - Len(threads),
                               order, EmptyDict)
       IN /\ heap[session_history["s1"]] = serial.history
          /\ \A t \in DOMAIN threads :
                threads[t].ret.session_pattern_risk = serial.risks[t]


\* C16: a pattern table with a malformed regular expression makes the
\* construction of the engine fail: no engine ever holds such a table, and
\* the only call that raises on it is __init__, never a later
\* assess_crisis_level.
C16_MalformedPatternFailsConstruction ==
  /\ \A i \in DOMAIN patterns : Compiles(patterns[i])
  /\ pc = "raised" => call.op = "__init__"


\* The list without the strings that are no CrisisType value.
KnownTypes(crisis_types) == SelectSeq(crisis_types, LAMBDA t : t \in CrisisTypeValues)

\* C17: a string outside CrisisType in the list of detected types changes
\* nothing: _get_relevant_resources returns the bundle it returns for the
\* list without that string, and generate_crisis_response returns one of
\* its templates, the one it returns for the list without that string.
C17_UnknownTypeIsInert ==
  /\ Resolved => ret = _get_relevant_resources(KnownTypes(call.crisis_types))
  /\ Responded =>
       /\ ret \in {CriticalSuicideTemplate, CriticalViolenceTemplate,
                   CriticalGenericTemplate, HighTemplate, MediumTemplate, LowTemplate}
       /\ ret = generate_crisis_response(
                  [crisis_level |-> call.assessment.crisis_level,
                   detected_types |-> KnownTypes(call.assessment.detected_types)])

\* A list of the unknown string alone got the bundle of the empty list: the
\* general emergency and support contacts, no hospital.
C17_Witness ==
  /\ Resolved
  /\ call.crisis_types = <<"unknown_type">>
  /\ ret = _get_relevant_resources(<<>>)
  /\ "general_emergency" \in DOMAIN ret
  /\ "royal_hospital" \notin DOMAIN ret


\* The call of _determine_crisis_level has returned.
Classified == pc = "returned" /\ call.op = "_determine_crisis_level"

\* C18: every threshold of the classifier is met at equality.  With suicide
\* detected a total score of exactly 2.0 is critical and every score from
\* 1.0 up to but excluding 2.0 is high; exactly 3.0 is critical; exactly 2.5
\* with violence is critical; exactly 2.0 is at least high; exactly 1.0 is
\* high with suicide or self_harm and at least medium without; exactly 0.5
\* with severe_depression is medium.
C18_ThresholdsInclusive ==
  Classified =>
    LET total_score == call.combined_score.total_score
        types == Range(call.combined_score.types)
    IN /\ ("suicide" \in types /\ total_score = 2000) => ret = CrisisLevel.CRITICAL
       /\ ("suicide" \in types /\ total_score >= 1000 /\ total_score < 2000)
            => ret = CrisisLevel.HIGH
       /\ total_score = 3000 => ret = CrisisLevel.CRITICAL
       /\ ("violence" \in types /\ total_score = 2500) => ret = CrisisLevel.CRITICAL
       /\ total_score = 2000 => ret \in {CrisisLevel.HIGH, CrisisLevel.CRITICAL}
       /\ (types \cap {"suicide", "self_harm"} # {} /\ total_score = 1000)
            => ret = CrisisLevel.HIGH
       /\ total_score = 1000 => ret \in {CrisisLevel.MEDIUM, CrisisLevel.HIGH}
       /\ ("severe_depression" \in types /\ total_score = 500)
            => ret = CrisisLevel.MEDIUM

\* Suicide alone at exactly 2.0 was classified critical.
C18_Witness ==
  /\ Classified
  /\ call.combined_score.total_score = 2000
  /\ call.combined_score.types = <<"suicide">>
  /\ ret = CrisisLevel.CRITICAL


\* Every value of the dict scores is at least 0.
NonNegative(scores) == \A crisis_type \in DOMAIN scores : scores[crisis_type] >= 0

\* C19: no score is negative: for every text assessed, the per-type scores
\* of the lexicon, pattern and dialect channels, the fused per-type scores
\* and the total score, and the score of every record stored in a session
\* history.
C19_ScoresNonNegative ==
  /\ Assessed =>
       LET combined_score == CombinedScoreOf[call.text]
       IN /\ NonNegative(combined_score.keyword_details.scores)
          /\ NonNegative(combined_score.pattern_details.scores)
          /\ NonNegative(combined_score.dialect_details.scores)
          /\ NonNegative(combined_score.scores)
          /\ combined_score.total_score >= 0
          /\ ret.crisis_score = combined_score.total_score
  /\ \A session_id \in DOMAIN session_history :
        \A i \in DOMAIN session_history[session_id] :
           session_history[session_id][i].score >= 0

\* A text matched by the dialect channel alone (idiom score 1.2) was stored
\* with its fused score 0.48.
C19_Witness ==
  /\ Tracked
  /\ call.text = TextBrokenHeart
  /\ CombinedScoreOf[call.text].dialect_details.scores = [severe_depression |-> 1200]
  /\ HistoryOfCall[Len(HistoryOfCall)].score = 480


\* C20: after n turns of one session, taken one at a time, its history is
\* the records of its most recent min(n, 10) turns in the order of arrival:
\* every turn puts its record at the end, and when the history held ten
\* records already, the oldest one, and only that one, is dropped.  (In
\* SpecLong every call is a turn of "s1", so n is clock and the record of
\* turn k carries timestamp k.)
C20_HistoryIsLastTenTurns ==
  [][Tracked' =>
       LET session_id == call'.session_id
           old == IF session_id \in DOMAIN session_history
                  THEN session_history[session_id] ELSE <<>>
           new == session_history'[session_id]
           record == [timestamp |-> clock',
                      score |-> CombinedScoreOf[call'.text].total_score,
                      types |-> CombinedScoreOf[call'.text].types]
       IN /\ new = (IF Len(old) >= 10 THEN Tail(old) ELSE old) \o <<record>>
          /\ Len(new) = IF clock' < 10 THEN clock' ELSE 10
          /\ \A i \in DOMAIN new : new[i].timestamp = clock' - Len(new) + i
  ]_vars

\* The eleventh turn has evicted the record of the first: the history
\* starts with the record of turn 2 and ends with the one just appended.
C20_Witness ==
  /\ Tracked
  /\ clock = 11
  /\ HistoryOfCall[1].timestamp = 2
  /\ HistoryOfCall[10] = [timestamp |-> 11,
                          score |-> CombinedScoreOf[call.text].total_score,
                          types |-> CombinedScoreOf[call.text].types]


\* The call of _calculate_combined_score has returned.
Fused == pc = "returned" /\ call.op = "_calculate_combined_score"

\* The score a channel result reports for a type, 0 when it does not list it.
Reported(results, crisis_type) ==
  IF crisis_type \in DOMAIN results.scores THEN results.scores[crisis_type] ELSE 0

\* The sum of scores over the types of the set.
RECURSIVE SumOver(_, _)
SumOver(types, scores) ==
  IF types = {} THEN 0
  ELSE LET crisis_type == CHOOSE t \in types : TRUE
       IN scores[crisis_type] + SumOver(types \ {crisis_type}, scores)

\* The types some channel result of the call lists.
ReportedTypes ==
  DOMAIN call.keyword_results.scores \cup DOMAIN call.pattern_results.scores
  \cup DOMAIN call.dialect_results.scores

\* C21: the fused result scores exactly the types some channel reports, each
\* with 0.3 x lexicon + 0.5 x pattern + 0.4 x dialect, a channel that does
\* not report the type counting 0, and total_score is the sum of the fused
\* scores.  (Scores are in thousandths, so the weights are taken in tenths.)
C21_FusionIsWeightedSum ==
  Fused =>
    /\ DOMAIN ret.scores = ReportedTypes
    /\ \A crisis_type \in ReportedTypes :
          10 * ret.scores[crisis_type] =
             3 * Reported(call.keyword_results, crisis_type)
             + 5 * Reported(call.pattern_results, crisis_type)
             + 4 * Reported(call.dialect_results, crisis_type)
    /\ ret.total_score = SumOver(DOMAIN ret.scores, ret.scores)

\* Suicide with one keyword, one pattern match of weight 0.9 and no idiom,
\* violence with one idiom only: 0.75 and 0.48, total 1.23.
C21_Witness ==
  /\ Fused
  /\ call.keyword_results.scores = [suicide |-> 1000]
  /\ call.pattern_results.scores = [suicide |-> 900]
  /\ call.dialect_results.scores = [violence |-> 1200]
  /\ ret.scores = [suicide |-> 750, violence |-> 480]
  /\ ret.total_score = 1230

\* C22: detected_types of a fused result lists exactly the types whose fused
\* score is above 0: none with score 0, every type a channel scored, and
\* none twice.
C22_TypesArePositiveScores ==
  Fused =>
    /\ Range(ret.types) = {crisis_type \in DOMAIN ret.scores : ret.scores[crisis_type] > 0}
    /\ ReportedTypes \subseteq Range(ret.types)
    /\ Len(ret.types) = Cardinality(Range(ret.types))

\* Suicide reported by all three channels and violence by one: each is
\* listed once.
C22_Witness ==
  /\ Fused
  /\ DOMAIN call.keyword_results.scores = {"suicide"}
  /\ DOMAIN call.pattern_results.scores = {"suicide", "violence"}
  /\ DOMAIN call.dialect_results.scores = {"suicide"}
  /\ Len(ret.types) = 2
  /\ Range(ret.types) = {"suicide", "violence"}


\* The call of _check_crisis_keywords has returned.
Matched == pc = "returned" /\ call.op = "_check_crisis_keywords"

\* The keywords of the i-th list of the table that occur in text: each
\* keyword once, however often it occurs.
MatchingKeywords(i, text) ==
  {k \in DOMAIN crisis_keywords[i].keywords :
     Contains(text, lower(crisis_keywords[i].keywords[k]))}

\* C23: the lexicon score of a crisis type is the number of keywords of the
\* type's list that occur in the text, 1 for each whatever the keyword and
\* however often it occurs; a type none of whose keywords occurs is neither
\* in the types nor in the scores of the result, and a type is listed once.
C23_LexiconCountsKeywords ==
  Matched =>
    /\ \A i \in DOMAIN crisis_keywords :
          LET crisis_type == crisis_keywords[i].type
              count == Cardinality(MatchingKeywords(i, call.text))
          IN IF count = 0
             THEN crisis_type \notin Range(ret.types) /\ crisis_type \notin DOMAIN ret.scores
             ELSE /\ crisis_type \in Range(ret.types)
                  /\ crisis_type \in DOMAIN ret.scores
                  /\ ret.scores[crisis_type] = 1000 * count
    /\ Len(ret.types) = Cardinality(Range(ret.types))
    /\ Range(ret.types) = DOMAIN ret.scores

\* A keyword that occurs twice counts once, and the phrase that holds two
\* suicide keywords and a violence keyword counts for each of them.
C23_Witness ==
  /\ Matched
  /\ call.text = JoinWords(<<LexiconWords[1], LexiconWords[1], LexiconWords[3]>>)
  /\ ret.scores = [suicide |-> 2000, violence |-> 1000, severe_depression |-> 1000]
  /\ ret.types = <<"suicide", "violence", "severe_depression">>


\* C24: no session is ever evicted.  A call leaves every stored session id in
\* the map, a turn of a session id leaves that id in the map (created by its
\* first turn), and every stored history holds at least one record.
C24_SessionsAreNeverEvicted ==
  [][/\ DOMAIN session_history \subseteq DOMAIN session_history'
     /\ Tracked' => call'.session_id \in DOMAIN session_history'
     /\ \A session_id \in DOMAIN session_history' :
           Len(session_history'[session_id]) >= 1
  ]_vars

\* Session s1 had the first turn only; three turns of s2 later it is still
\* stored with that one record.
C24_Witness ==
  /\ Tracked
  /\ clock = 4
  /\ call.session_id = "s2"
  /\ DOMAIN session_history = {"s1", "s2"}
  /\ Len(session_history["s1"]) = 1
  /\ session_history["s1"][1].timestamp = 1
  /\ Len(session_history["s2"]) = 3

\* C25: a turn of session s changes the history of s only, and what it does
\* to that history and the risk it returns are what the same turn does on an
\* engine that holds the history of s and no other session.
C25_TurnTouchesOwnSessionOnly ==
  [][Tracked' =>
       LET s == call'.session_id
           own == IF s \in DOMAIN session_history
                  THEN s :> session_history[s] ELSE EmptyDict
           alone == _analyze_session_patterns(own, s, CombinedScoreOf[call'.text], clock')
       IN /\ DOMAIN session_history' = DOMAIN session_history \cup {s}
          /\ \A other \in DOMAIN session_history \ {s} :
                session_history'[other] = session_history[other]
          /\ session_history'[s] = alone.session_history[s]
          /\ ret'.session_pattern_risk = alone.risk
  ]_vars

\* Turns of s1 and s2 alternate; s1 holds two records above 1.0, and the
\* second turn of s2, itself above 1.0, reports risk 0.
C25_Witness ==
  /\ Tracked
  /\ call.session_id = "s2"
  /\ "s1" \in DOMAIN session_history
  /\ [i \in DOMAIN session_history["s1"] |-> session_history["s1"][i].timestamp] = <<1, 3>>
  /\ \A i \in DOMAIN session_history["s1"] : session_history["s1"][i].score > 1000
  /\ [i \in DOMAIN HistoryOfCall |-> HistoryOfCall[i].timestamp] = <<2, 4>>
  /\ HistoryOfCall[2].score > 1000
  /\ ret.session_pattern_risk = 0


\* The place of a level in the order low < medium < high < critical.
Rank(level) ==
  CASE level = "low" -> 0
    [] level = "medium" -> 1
    [] level = "high" -> 2
    [] level = "critical" -> 3

\* The level of the same types at another total score.
LevelAt(total_score) ==
  _determine_crisis_level([total_score |-> total_score,
                           types |-> call.combined_score.types])

\* C26: with the detected types fixed, the level never falls when the total
\* score rises: the level of a score is at least the level of the next
\* lower score of the grid and of every threshold below it, and at most
\* the level of every threshold above it.
C26_LevelMonotoneInScore ==
  Classified =>
    LET total_score == call.combined_score.total_score
    IN /\ total_score >= 5 => Rank(LevelAt(total_score - 5)) <= Rank(ret)
       /\ \A threshold \in {0, 500, 1000, 2000, 2500, 3000} :
             /\ threshold <= total_score => Rank(LevelAt(threshold)) <= Rank(ret)
             /\ threshold >= total_score => Rank(LevelAt(threshold)) >= Rank(ret)

\* Violence and severe_depression at 2.5 are critical, one grid step below
\* they are high.
C26_Witness ==
  /\ Classified
  /\ call.combined_score.total_score = 2500
  /\ Range(call.combined_score.types) = {"violence", "severe_depression"}
  /\ ret = CrisisLevel.CRITICAL
  /\ LevelAt(2495) = CrisisLevel.HIGH


\* The crisis types that have an entry in a table.
TypesOf(table) == {table[i].type : i \in DOMAIN table}

\* C27: eating_disorder is never detected, no table has an entry for it;
\* psychosis and substance_abuse have entries in the keyword table only, so
\* no pattern or dialect result lists them and their fused scores are whole
\* multiples of 0.3.
C27_LexiconOnlyTypes ==
  /\ "eating_disorder" \notin
       TypesOf(crisis_keywords) \cup TypesOf(crisis_patterns)
       \cup TypesOf(omani_crisis_expressions)
  /\ {"psychosis", "substance_abuse"} \subseteq TypesOf(crisis_keywords)
  /\ {"psychosis", "substance_abuse"}
       \cap (TypesOf(crisis_patterns) \cup TypesOf(omani_crisis_expressions)) = {}
  /\ Assessed =>
       LET combined_score == CombinedScoreOf[call.text]
       IN /\ ~InList("eating_disorder", ret.detected_types)
          /\ \A crisis_type \in {"psychosis", "substance_abuse"} :
                /\ crisis_type \notin DOMAIN combined_score.pattern_details.scores
                /\ crisis_type \notin DOMAIN combined_score.dialect_details.scores
                /\ crisis_type \in DOMAIN combined_score.scores
                     => combined_score.scores[crisis_type] % 300 = 0

\* Two substance_abuse keywords were found: the fused score of the type is
\* 0.6, from the lexicon alone.
C27_Witness ==
  /\ Assessed
  /\ call.text = TextFive
  /\ InList("substance_abuse", ret.detected_types)
  /\ CombinedScoreOf[call.text].keyword_details.scores["substance_abuse"] = 2000
  /\ CombinedScoreOf[call.text].scores["substance_abuse"] = 600


\* C28: a call of assess_crisis_level with the empty string as session id
\* is treated like one without an id: it returns session_pattern_risk 0,
\* creates no history for the key "" and appends no record, so the map never
\* holds the key "".
C28_EmptySessionIdIsAbsent ==
  [][(call'.op = "assess_crisis_level" /\ call'.session_id = "")
       => /\ ret'.session_pattern_risk = 0
          /\ "" \notin DOMAIN session_history'
          /\ session_history' = session_history]_vars

\* Three turns, the last one critical and sent with the empty id, none of
\* them of a named session: the map is still empty and the risk is 0.
C28_Witness ==
  /\ Assessed
  /\ clock = MaxTurns
  /\ call.session_id = ""
  /\ call.text = TextCritical
  /\ session_history = EmptyDict
  /\ ret.session_pattern_risk = 0


\* The records of the ten most recent turns of the session of the call,
\* oldest first (the record of turn k carries timestamp k).
RecentTurns == SelectSeq(HistoryOfCall, LAMBDA entry : entry.timestamp > clock - 10)

\* No three consecutive scores of the list are strictly increasing.
NeverIncreasing(history) ==
  \A i \in 1..(Len(history) - 2) :
     ~(history[i].score < history[i + 1].score
         /\ history[i + 1].score < history[i + 2].score)

\* C29: the session risk is decided by the records of the ten most recent
\* turns alone, evicted records no longer count: whatever came before, when
\* the ten most recent turns of the session all scored at most 1.0 and no
\* three consecutive ones of them are strictly increasing, the turn returns
\* session_pattern_risk 0.0.
C29_CalmWindowResetsRisk ==
  Tracked =>
    /\ ret.session_pattern_risk = SessionRisk(RecentTurns)
    /\ (/\ Len(RecentTurns) = 10
        /\ \A i \in DOMAIN RecentTurns : RecentTurns[i].score <= 1000
        /\ NeverIncreasing(RecentTurns))
         => ret.session_pattern_risk = 0

\* Two turns of score 1.5, then ten calm turns with scores 0, 0.3 and 0.48
\* among them: the two opening records are evicted and the risk is 0.
C29_Witness ==
  /\ Tracked
  /\ clock = MaxPriorTurns + 10
  /\ Len(HistoryOfCall) = 10
  /\ HistoryOfCall[1].timestamp = MaxPriorTurns + 1
  /\ \A i \in DOMAIN HistoryOfCall : HistoryOfCall[i].score <= 1000
  /\ {0, 300, 480} \subseteq {HistoryOfCall[i].score : i \in DOMAIN HistoryOfCall}
  /\ NeverIncreasing(HistoryOfCall)
  /\ ret.session_pattern_risk = 0


\* The emergency set together with the support set.
BasicBundle == Update(emergency_resources.emergency, emergency_resources.support)

\* The emergency, mental-health, hospital and support sets together.
FullBundle ==
  Update(Update(Update(emergency_resources.emergency, emergency_resources.mental_health),
                emergency_resources.hospitals),
         emergency_resources.support)

\* C30: the bundle takes two values only.  For a list with none of suicide,
\* self_harm, severe_depression (the empty list and a violence-only list
\* included) it is exactly the emergency set plus the support set, without
\* any hospital or mental-health entry; otherwise it is those plus the
\* mental-health and hospital sets.  Violence in the list adds no key and
\* changes no value: police is 999 in the emergency set already.
C30_BundleHasTwoValues ==
  Resolved =>
    LET mental == \E t \in {"suicide", "self_harm", "severe_depression"} :
                     InList(t, call.crisis_types)
    IN /\ ret = IF mental THEN FullBundle ELSE BasicBundle
       /\ ~mental =>
            /\ DOMAIN ret = DOMAIN emergency_resources.emergency
                              \cup DOMAIN emergency_resources.support
            /\ DOMAIN ret \cap (DOMAIN emergency_resources.hospitals
                                  \cup DOMAIN emergency_resources.mental_health) = {}
       /\ ret["police"] = emergency_resources.emergency.police

\* A violence-only list got the eight entries of the emergency and support
\* sets and nothing else, police being the 999 of the emergency set.
C30_Witness ==
  /\ Resolved
  /\ call.crisis_types = <<"violence">>
  /\ ret = BasicBundle
  /\ Cardinality(DOMAIN ret) = 8
  /\ ret["police"] = <<57, 57, 57>>
  /\ FullBundle # BasicBundle

=============================================================================
